---- MODULE Spec2Model ----
(***************************************************************************)
(* The budget ledger and the booking flows of the travel planner:          *)
(*   - the TravelPlan aggregate (src/models/travel_plan.py),               *)
(*   - the command-line front end (src/ui/cli.py) wired either with the    *)
(*     three services (src/main.py) or without them (the constructor's     *)
(*     defaults, which select the api_wrappers fall-back paths),           *)
(*   - FlightService / HotelService / ActivityService (src/services),      *)
(*   - the conversational web flow (src/pui.py).                           *)
(*                                                                         *)
(* Money is a Python float in the source.  It is modelled as a whole       *)
(* number of dollars; a product with a fractional factor (0.4 * budget)    *)
(* is computed in integers and truncated.  Dates are day numbers counted   *)
(* from today (day 0), so that return - departure is the number of nights. *)
(* A handler that blocks on input() inside a loop is cut at that input():  *)
(* pc is the prompt the command-line session is waiting at.  Free-text     *)
(* questions forwarded to the language model print an answer and change    *)
(* nothing; they are stuttering steps and are not listed as actions.       *)
(***************************************************************************)
EXTENDS Integers, Sequences, FiniteSets

VARIABLES
    frontend,          \* "services" | "fallback" (TravelPlannerCLI with / without services) | "web"
    total_budget,      \* TravelPlan.total_budget
    remaining_budget,  \* TravelPlan.remaining_budget
    departure,         \* TravelPlan.departure  (the resolved code, or None)
    destination,       \* TravelPlan.destination
    departure_date,    \* TravelPlan.departure_date (day number, or Unset)
    return_date,       \* TravelPlan.return_date
    travelers,         \* TravelPlan.travelers
    flights,           \* TravelPlan.flights    (None or a booking record)
    hotels,            \* TravelPlan.hotels
    activities,        \* TravelPlan.activities (sequence of booking records)
    pc,                \* the prompt the CLI session waits at
    flight_options,    \* flight_options['data'] held by the flight selection loop (prices)
    current_step,      \* st.session_state.current_step   (web flow)
    pending_action,    \* st.session_state.pending_action (web flow)
    last,              \* history: the last operation, its argument, price and outcome
    ops,               \* history: how many operations have changed the ledger so far
    rt,                \* history: the booking undone by the cancel / remove just made
    tm,                \* AmadeusTokenManager: token and expiry_time
    now,               \* time.time(), in seconds
    call,              \* the get_token call in progress, or the last one made
    calls,             \* history: how many get_token calls have been made
    fs,                \* the flight query client: access_token and its position
    location_cache,    \* LocationService.location_cache
    res,               \* the find_iata_code call in progress, or the last one made
    given,             \* the argument of a function applied on its own
    returned,          \* what that function returned
    sessions,          \* the get_token call of each web session on the shared manager
    minted             \* history: for each token issued, when the provider ends it

plan == <<total_budget, remaining_budget, departure, destination, departure_date,
          return_date, travelers, flights, hotels, activities>>

\* the planning session, and the provider-facing services
planner == <<frontend, total_budget, remaining_budget, departure, destination,
             departure_date, return_date, travelers, flights, hotels, activities,
             pc, flight_options, current_step, pending_action, last, ops, rt>>

service == <<tm, now, call, calls, fs, location_cache, res>>

\* parsing, serialization and loading, applied on their own
bench == <<given, returned, sessions, minted>>

vars == <<planner, service, bench>>

---------------------------------------------------------------------------
(* Bounds of the model *)

\* the activity list is explored up to this length
MaxActs == 2
\* a session is explored up to this many operations that change the ledger
MaxOps == 5

(* Program constants *)

\* cli.py: get_numeric_input("Total budget (USD)", min_value=100)
MinBudget == 100

(* Input domains *)

Locations == {"CDG"}
\* departure days typed at the CLI prompts (today or later)
DepartureInputs == {0}
TravelerInputs == {2}
BudgetInputs == {50, 100, 500}
\* prices the user types in the fall-back hotel and activity prompts
PriceInputs == {50, 100}
\* flight_options['data'] as returned by the provider: the total price of each offer
FlightResults == { <<>>, <<100, 400>> }
\* return days typed at the date prompts (today is day 0)
ReturnInputs == {0, 1}
\* night counts typed at the "Change number of nights" prompt
NightInputs == {0, 1, 3}
\* the option numbers typed at the hotel and activity prompts (of '1'..'3', '1'..'5')
HotelChoices == {1, 3}
ActivityChoices == {2, 3}
\* day numbers typed in the web flow's "YYYY-MM-DD to YYYY-MM-DD" answer
WebDateInputs == {0, 1}
\* comma-separated activity numbers typed in the web flow
WebSelections == { <<1>>, <<2>>, <<6>>, <<1, 6>>, <<2, 1>> }

---------------------------------------------------------------------------
(* Values *)

None == [none |-> TRUE]
Unset == 0 - 1

NoOp == [op |-> "construct", outcome |-> "ok", arg |-> 0, price |-> 0]
Did(op, outcome, arg, price) == [op |-> op, outcome |-> outcome, arg |-> arg, price |-> price]

NoRT == [kind |-> "none"]

Min(a, b) == IF a <= b THEN a ELSE b

\* budget * (pct / 100), the float product truncated to whole dollars
Pct(amount, pct) == (amount * pct) \div 100

RECURSIVE SumPrices(_)
SumPrices(s) == IF s = <<>> THEN 0 ELSE Head(s).price + SumPrices(Tail(s))

\* TravelPlan.calculate_remaining_budget: what the ledger should read
spent == (IF flights # None THEN flights.price ELSE 0)
         + (IF hotels # None THEN hotels.price ELSE 0)
         + SumPrices(activities)

\* TravelPlan.get_trip_duration_days
get_trip_duration_days ==
    IF departure_date = Unset \/ return_date = Unset THEN 0
    ELSE return_date - departure_date

---------------------------------------------------------------------------
(* Faulty variants of the guards and updates below: a property that holds    *)
(* of the program is expected to tell the program from them.                 *)

StrictlyWithin(price, budget) == price < budget
AlwaysWithin(price, budget) == TRUE
NeverInsufficient(price_difference, budget) == FALSE
AlwaysAllowed == TRUE
NoRefund(budget, price) == budget
RemoveFirst(s, index) == Tail(s)
AlwaysRetrying(retries) == TRUE
FreshUntilExpiry(token, t, expiry_time) == token # 0 /\ t < expiry_time
AlwaysServerError(status) == TRUE
AlwaysAuthenticated(access_token) == TRUE
NeverExpired(status) == FALSE
NotLowered(location_name) == location_name
NoData(answer) == FALSE
ResettingSummary ==
    /\ total_budget # Unset
    /\ remaining_budget' = total_budget
    /\ returned' = [op |-> "get_summary", shown |-> total_budget]
    /\ UNCHANGED <<frontend, total_budget, departure, destination, departure_date,
                   return_date, travelers, flights, hotels, activities, pc,
                   flight_options, current_step, pending_action, last, ops, rt>>
    /\ UNCHANGED <<service, given, sessions, minted>>
ReopeningSummary ==
    /\ frontend = "web" /\ current_step = "summary"
    /\ current_step' = "destination"
    /\ last' = [op |-> "process_summary", outcome |-> "ok", arg |-> 0, price |-> 0]
    /\ UNCHANGED <<frontend, total_budget, remaining_budget, departure, destination,
                   departure_date, return_date, travelers, flights, hotels,
                   activities, pc, flight_options, pending_action, ops, rt>>
    /\ UNCHANGED <<service, bench>>
OffersAnyway(result, data) == [data |-> data]
KeepingPrice(current_price, current_nights, new_nights) == current_price
AnyBudget(new_budget, total) == TRUE
CapTimesNights(option_num, budget, nights) == 200 * nights
FreshWhileHeld(token, t, expiry_time) == token # 0
Unscored(input_name, loc) == 0
BookingUnlisted ==
    /\ frontend = "fallback" /\ pc = "flight_select"
    /\ flights' = [option |-> 3, price |-> 0]
    /\ pc' = "menu"
    /\ flight_options' = <<>>
    /\ last' = [op |-> "flight_select", outcome |-> "booked", arg |-> 3, price |-> 0]
    /\ UNCHANGED <<frontend, total_budget, remaining_budget, departure, destination,
                   departure_date, return_date, travelers, hotels, activities,
                   current_step, pending_action, ops, rt>>
    /\ UNCHANGED <<service, given, returned, sessions, minted>>
WithoutActivities(p) == [k \in DOMAIN p \ {"activities"} |-> p[k]]

---------------------------------------------------------------------------
(* Construction: TravelPlan() and the front end around it *)

\* ---- provider-facing services: initial values ----

\* requests' RequestException, in place of a status code
NetworkError == 0

\* no get_token call has been made
NoCall == [pc |-> "idle", by |-> "none", retries |-> 0, exchanges |-> 0,
           server_errors |-> 0, status |-> 0, waited |-> 0, result |-> 0,
           cached |-> FALSE]

\* FlightService is built by the services CLI; the fall-back CLI and the web
\* flow call api_wrappers.search_flights, which needs no construction
NewClient(f) == [access_token |-> 0, pc |-> IF f = "services" THEN "new" ELSE "idle",
                 requests |-> 0, refreshes |-> 0, status |-> 0,
                 result |-> "pending"]

\* no find_iata_code call has been made
NoResolve == [pc |-> "idle", origin |-> "", text |-> "", depth |-> 0, tokens |-> 0,
              lookups |-> 0, geocodes |-> 0,
              lookup |-> [status |-> Unset, data |-> <<>>], hit |-> "none",
              result |-> None, n |-> 0]

\* the web sessions of one server process: api_wrappers is imported once, and
\* its module-level _token_manager serves them all
Sessions == {1, 2}

\* a session that has not called get_token
NoSession == [pc |-> "idle", calls |-> 0, seen |-> 0, retries |-> 0, token |-> 0,
              ttl |-> 0, result |-> 0, at |-> 0]

\* the session and the services as constructed
Start ==
    /\ frontend \in {"services", "fallback", "web"}
    /\ total_budget = Unset
    /\ remaining_budget = Unset
    /\ departure = None
    /\ destination = None
    /\ departure_date = Unset
    /\ return_date = Unset
    /\ travelers = Unset
    /\ flights = None
    /\ hotels = None
    /\ activities = <<>>
    /\ pc = IF frontend = "web" THEN "web" ELSE "init"
    /\ flight_options = <<>>
    /\ current_step = IF frontend = "web" THEN "destination" ELSE "none"
    /\ pending_action = "None"
    /\ last = NoOp
    /\ ops = 0
    /\ rt = NoRT
    /\ tm = [token |-> 0, expiry_time |-> 0]
    /\ now = 0
    /\ call = NoCall
    /\ calls = 0
    /\ fs = NewClient(frontend)
    /\ location_cache = <<>>
    /\ res = NoResolve
    /\ sessions = [s \in Sessions |-> NoSession]
    /\ minted = <<>>

Init ==
    /\ Start
    /\ given = None
    /\ returned = None

cli == frontend \in {"services", "fallback"}

---------------------------------------------------------------------------
(* TravelPlannerCLI.collect_initial_details *)

\* the prompts of collect_initial_details, the budget typed being one of budgets
CollectInitialDetails(budgets) ==
    /\ cli /\ pc = "init"
    /\ \E dep \in Locations, dst \in Locations, d \in DepartureInputs, n \in TravelerInputs,
          b \in budgets :
         \E r \in { x \in ReturnInputs : x >= d } :
            /\ b >= MinBudget
            /\ departure' = dep
            /\ destination' = dst
            /\ departure_date' = d
            /\ return_date' = r
            /\ travelers' = n
            /\ total_budget' = b
            /\ remaining_budget' = b
            /\ last' = Did("collect_initial_details", "ok", 0, b)
            /\ ops' = ops
    /\ pc' = "menu"
    /\ rt' = NoRT
    /\ UNCHANGED <<frontend, flights, hotels, activities, flight_options,
                   current_step, pending_action>>
    /\ UNCHANGED service
    /\ UNCHANGED bench

collect_initial_details == CollectInitialDetails(BudgetInputs)

---------------------------------------------------------------------------
(* TravelPlannerCLI.edit_travel_details: one menu choice, then back to the   *)
(* main menu.  Also entered from the fall-back flight search when no flight  *)
(* was found and the user asks to modify the criteria.                       *)

any_booking == flights # None \/ hotels # None \/ activities # <<>>

edit_departure ==
    /\ \E loc \in Locations : departure' = loc
    /\ last' = Did("edit_travel_details", "details", 0, 0)
    /\ ops' = ops
    /\ UNCHANGED <<total_budget, remaining_budget, destination, departure_date,
                   return_date, travelers, flights, hotels, activities>>

edit_destination ==
    /\ \E loc \in Locations : destination' = loc
    /\ last' = Did("edit_travel_details", "details", 0, 0)
    /\ ops' = ops
    /\ UNCHANGED <<total_budget, remaining_budget, departure, departure_date,
                   return_date, travelers, flights, hotels, activities>>

edit_dates ==
    /\ \E d \in DepartureInputs : \E r \in { x \in ReturnInputs : x >= d } :
          /\ departure_date' = d
          /\ return_date' = r
    /\ last' = Did("edit_travel_details", "details", 0, 0)
    /\ ops' = ops
    /\ UNCHANGED <<total_budget, remaining_budget, departure, destination,
                   travelers, flights, hotels, activities>>

edit_travelers ==
    /\ \E n \in TravelerInputs : travelers' = n
    /\ last' = Did("edit_travel_details", "details", 0, 0)
    /\ ops' = ops
    /\ UNCHANGED <<total_budget, remaining_budget, departure, destination,
                   departure_date, return_date, flights, hotels, activities>>

\* choice 5 with a booking present and the warning answered 'y'
edit_budget_reset ==
    /\ any_booking
    /\ \E b \in BudgetInputs :
          /\ b >= MinBudget
          /\ total_budget' = b
          /\ remaining_budget' = b
          /\ last' = Did("edit_travel_details", "budget_reset", 0, b)
          /\ ops < MaxOps /\ ops' = ops + 1
    /\ flights' = None
    /\ hotels' = None
    /\ activities' = <<>>
    /\ UNCHANGED <<departure, destination, departure_date, return_date, travelers>>

\* choice 5 with a booking present and the warning not answered 'y'
edit_budget_declined ==
    /\ any_booking
    /\ last' = Did("edit_travel_details", "budget_declined", 0, 0)
    /\ ops' = ops
    /\ UNCHANGED plan

\* choice 5 with no booking
edit_budget_set ==
    /\ ~any_booking
    /\ \E b \in BudgetInputs :
          /\ b >= MinBudget
          /\ total_budget' = b
          /\ remaining_budget' = b
          /\ last' = Did("edit_travel_details", "budget_set", 0, b)
          /\ ops < MaxOps /\ ops' = ops + 1
    /\ UNCHANGED <<departure, destination, departure_date, return_date, travelers,
                   flights, hotels, activities>>

\* choice 6, or anything else
edit_back ==
    /\ last' = Did("edit_travel_details", "back", 0, 0)
    /\ ops' = ops
    /\ UNCHANGED plan

edit_choice ==
    \/ edit_departure
    \/ edit_destination
    \/ edit_dates
    \/ edit_travelers
    \/ edit_budget_reset
    \/ edit_budget_declined
    \/ edit_budget_set
    \/ edit_back

edit_travel_details ==
    /\ cli /\ pc = "menu"
    /\ edit_choice
    /\ pc' = "menu"
    /\ rt' = NoRT
    /\ UNCHANGED <<frontend, flight_options, current_step, pending_action>>
    /\ UNCHANGED service
    /\ UNCHANGED bench

---------------------------------------------------------------------------
(* FlightService.search_flights, as TravelPlannerCLI.discuss_flights calls   *)
(* it when a flight service is present.  The provider's answer is an input.  *)

search_flights ==
    /\ frontend = "services" /\ pc = "menu"
    /\ \E data \in FlightResults :
          /\ flight_options' = data
          /\ pc' = IF data # <<>> THEN "flight_select" ELSE "no_flights"
          /\ last' = Did("search_flights", IF data # <<>> THEN "options" ELSE "no_flights", 0, 0)
          /\ ops' = ops
    /\ rt' = NoRT
    /\ UNCHANGED <<frontend, current_step, pending_action>>
    /\ UNCHANGED plan
    /\ UNCHANGED service
    /\ UNCHANGED bench

\* 'X' at the flight prompt
flight_skip ==
    /\ cli /\ pc = "flight_select"
    /\ pc' = "menu"
    /\ flight_options' = <<>>
    /\ last' = Did("flight_select", "skip", 0, 0)
    /\ ops' = ops
    /\ rt' = NoRT
    /\ UNCHANGED <<frontend, current_step, pending_action>>
    /\ UNCHANGED plan
    /\ UNCHANGED service
    /\ UNCHANGED bench

\* flight_service.py:96  if price <= travel_plan.remaining_budget
FlightWithinBudget(price, budget) == price <= budget

\* '1'..'3' at the flight prompt of the service
flight_select ==
    /\ frontend = "services" /\ pc = "flight_select"
    /\ \E choice \in 1 .. 3 :
         IF choice - 1 < Len(flight_options)
         THEN LET price == flight_options[choice] IN
              IF FlightWithinBudget(price, remaining_budget)
              THEN \/ /\ flights' = [option |-> choice, price |-> price]
                      /\ remaining_budget' = remaining_budget - price
                      /\ pc' = "menu"
                      /\ flight_options' = <<>>
                      /\ last' = Did("flight_select", "booked", choice, price)
                      /\ ops < MaxOps /\ ops' = ops + 1
                      /\ UNCHANGED total_budget
                   \/ /\ last' = Did("flight_select", "declined", choice, price)
                      /\ ops' = ops
                      /\ UNCHANGED <<total_budget, remaining_budget, flights, pc,
                                     flight_options>>
              ELSE /\ pc' = "flight_budget"
                   /\ last' = Did("flight_select", "over_budget", choice, price)
                   /\ ops' = ops
                   /\ UNCHANGED <<total_budget, remaining_budget, flights, flight_options>>
         ELSE /\ last' = Did("flight_select", "invalid_option", choice, 0)
              /\ ops' = ops
              /\ UNCHANGED <<total_budget, remaining_budget, flights, pc, flight_options>>
    /\ rt' = NoRT
    /\ UNCHANGED <<frontend, departure, destination, departure_date, return_date,
                   travelers, hotels, activities, current_step, pending_action>>
    /\ UNCHANGED service
    /\ UNCHANGED bench

\* flight_service.py:113  get_numeric_input(..., min_value=travel_plan.total_budget)
AcceptedIncrease(new_budget, total) == new_budget >= total

\* "Would you like to increase your budget?" after an over-budget selection
flight_budget ==
    /\ frontend = "services" /\ pc = "flight_budget"
    /\ \/ \E new_budget \in BudgetInputs :
             /\ AcceptedIncrease(new_budget, total_budget)
             /\ total_budget' = new_budget
             /\ remaining_budget' = remaining_budget + (new_budget - total_budget)
             /\ last' = Did("flight_budget", "increased", 0, new_budget)
             /\ ops < MaxOps /\ ops' = ops + 1
       \/ /\ last' = Did("flight_budget", "kept", 0, 0)
          /\ ops' = ops
          /\ UNCHANGED <<total_budget, remaining_budget>>
    /\ pc' = "flight_select"
    /\ rt' = NoRT
    /\ UNCHANGED <<frontend, departure, destination, departure_date, return_date,
                   travelers, flights, hotels, activities, flight_options,
                   current_step, pending_action>>
    /\ UNCHANGED service
    /\ UNCHANGED bench

\* FlightService.modify_flight_criteria: the criteria menu entered directly
modify_flight_criteria ==
    /\ frontend = "services" /\ pc = "menu"
    /\ pc' = "no_flights"
    /\ last' = Did("modify_flight_criteria", "menu", 0, 0)
    /\ ops' = ops
    /\ rt' = NoRT
    /\ UNCHANGED <<frontend, flight_options, current_step, pending_action>>
    /\ UNCHANGED plan
    /\ UNCHANGED service
    /\ UNCHANGED bench

\* FlightService._handle_no_flights_found: one pass of its menu loop
handle_no_flights_found ==
    /\ frontend = "services" /\ pc = "no_flights"
    /\ \/ /\ \E loc \in Locations : departure' = loc
          /\ pc' = "menu"
          /\ last' = Did("handle_no_flights_found", "details", 0, 0)
          /\ ops' = ops
          /\ UNCHANGED <<total_budget, remaining_budget, destination, departure_date,
                         return_date>>
       \/ /\ \E loc \in Locations : destination' = loc
          /\ pc' = "menu"
          /\ last' = Did("handle_no_flights_found", "details", 0, 0)
          /\ ops' = ops
          /\ UNCHANGED <<total_budget, remaining_budget, departure, departure_date,
                         return_date>>
       \/ /\ \E d \in DepartureInputs : \E r \in { x \in ReturnInputs : x >= d } :
                /\ departure_date' = d
                /\ return_date' = r
          /\ pc' = "menu"
          /\ last' = Did("handle_no_flights_found", "details", 0, 0)
          /\ ops' = ops
          /\ UNCHANGED <<total_budget, remaining_budget, departure, destination>>
       \/ /\ \E b \in BudgetInputs :
                /\ b >= MinBudget
                /\ total_budget' = b
                /\ remaining_budget' = b
                /\ last' = Did("handle_no_flights_found", "budget", 0, b)
                /\ ops < MaxOps /\ ops' = ops + 1
          /\ pc' = "menu"
          /\ UNCHANGED <<departure, destination, departure_date, return_date>>
       \/ /\ pc' = "menu"
          /\ last' = Did("handle_no_flights_found", "exit", 0, 0)
          /\ ops' = ops
          /\ UNCHANGED <<total_budget, remaining_budget, departure, destination,
                         departure_date, return_date>>
       \/ /\ pc' = "no_flights"
          /\ last' = Did("handle_no_flights_found", "invalid", 0, 0)
          /\ ops' = ops
          /\ UNCHANGED <<total_budget, remaining_budget, departure, destination,
                         departure_date, return_date>>
    /\ flight_options' = <<>>
    /\ rt' = NoRT
    /\ UNCHANGED <<frontend, travelers, flights, hotels, activities,
                   current_step, pending_action>>
    /\ UNCHANGED service
    /\ UNCHANGED bench

---------------------------------------------------------------------------
(* TravelPlannerCLI.discuss_flights without a flight service: the wrapper's  *)
(* search and the CLI's own selection loop.                                  *)

\* the wrapper's search, the provider answering with one of results
CliSearchFlights(results) ==
    /\ frontend = "fallback" /\ pc = "menu"
    /\ \E data \in results :
          /\ flight_options' = data
          /\ pc' = IF data # <<>> THEN "flight_select" ELSE "modify_search"
          /\ last' = Did("search_flights", IF data # <<>> THEN "options" ELSE "no_flights", 0, 0)
          /\ ops' = ops
    /\ rt' = NoRT
    /\ UNCHANGED <<frontend, current_step, pending_action>>
    /\ UNCHANGED plan
    /\ UNCHANGED service
    /\ UNCHANGED bench

cli_search_flights == CliSearchFlights(FlightResults)

\* "Would you like to modify your search criteria? (y/n)"
cli_modify_search ==
    /\ frontend = "fallback" /\ pc = "modify_search"
    /\ \/ edit_choice
       \/ /\ last' = Did("search_flights", "unmodified", 0, 0)
          /\ ops' = ops
          /\ UNCHANGED plan
    /\ pc' = "menu"
    /\ flight_options' = <<>>
    /\ rt' = NoRT
    /\ UNCHANGED <<frontend, current_step, pending_action>>
    /\ UNCHANGED service
    /\ UNCHANGED bench

\* cli.py:395  if price <= self.travel_plan.remaining_budget
CliFlightWithinBudget(price, budget) == price <= budget

cli_flight_select ==
    /\ frontend = "fallback" /\ pc = "flight_select"
    /\ \E choice \in 1 .. 3 :
         IF choice - 1 < Len(flight_options)
         THEN LET price == flight_options[choice] IN
              \/ IF CliFlightWithinBudget(price, remaining_budget)
                 THEN /\ flights' = [option |-> choice, price |-> price]
                      /\ remaining_budget' = remaining_budget - price
                      /\ pc' = "menu"
                      /\ flight_options' = <<>>
                      /\ last' = Did("flight_select", "booked", choice, price)
                      /\ ops < MaxOps /\ ops' = ops + 1
                 ELSE /\ last' = Did("flight_select", "over_budget", choice, price)
                      /\ ops' = ops
                      /\ UNCHANGED <<remaining_budget, flights, pc, flight_options>>
              \/ /\ last' = Did("flight_select", "declined", choice, price)
                 /\ ops' = ops
                 /\ UNCHANGED <<remaining_budget, flights, pc, flight_options>>
         ELSE /\ last' = Did("flight_select", "invalid_option", choice, 0)
              /\ ops' = ops
              /\ UNCHANGED <<remaining_budget, flights, pc, flight_options>>
    /\ rt' = NoRT
    /\ UNCHANGED <<frontend, total_budget, departure, destination, departure_date,
                   return_date, travelers, hotels, activities, current_step,
                   pending_action>>
    /\ UNCHANGED service
    /\ UNCHANGED bench

---------------------------------------------------------------------------
(* Hotels: TravelPlannerCLI.discuss_hotels and HotelService.discuss_hotels   *)

\* cli.py:417 and hotel_service.py:20  if not travel_plan.flights: return
HotelSearchAllowed == flights # None

\* api_wrappers.get_hotel_suggestions divides by nights * 1.5,
\* get_activity_suggestions by days: a stay of zero nights raises
Divides(nights) == nights # 0

discuss_hotels ==
    /\ cli /\ pc = "menu"
    /\ IF ~HotelSearchAllowed
       THEN /\ pc' = "menu"
            /\ last' = Did("discuss_hotels", "refused", 0, 0)
            /\ ops' = ops
       ELSE IF frontend = "fallback" /\ ~Divides(get_trip_duration_days)
       THEN /\ pc' = "crashed"
            /\ last' = Did("discuss_hotels", "error", 0, 0)
            /\ ops' = ops
       ELSE /\ pc' = "hotel_select"
            /\ last' = Did("discuss_hotels", "options", 0, 0)
            /\ ops' = ops
    /\ rt' = NoRT
    /\ UNCHANGED <<frontend, flight_options, current_step, pending_action>>
    /\ UNCHANGED plan
    /\ UNCHANGED service
    /\ UNCHANGED bench

\* 'X' at the hotel prompt
hotel_skip ==
    /\ cli /\ pc = "hotel_select"
    /\ pc' = "menu"
    /\ last' = Did("hotel_select", "skip", 0, 0)
    /\ ops' = ops
    /\ rt' = NoRT
    /\ UNCHANGED <<frontend, flight_options, current_step, pending_action>>
    /\ UNCHANGED plan
    /\ UNCHANGED service
    /\ UNCHANGED bench

\* hotel_service.py:74-79  estimated_prices[option_num]
estimated_prices(option_num, budget, nights) ==
    CASE option_num = 1 -> Min(Pct(budget, 40), 200 * nights)
      [] option_num = 2 -> Min(Pct(budget, 30), 150 * nights)
      [] option_num = 3 -> Min(Pct(budget, 20), 100 * nights)

\* hotel_service.py:86  if price <= travel_plan.remaining_budget
HotelWithinBudget(price, budget) == price <= budget

\* '1'..'3' at the hotel prompt of the service
hotel_select ==
    /\ frontend = "services" /\ pc = "hotel_select"
    /\ \E option_num \in HotelChoices :
         LET nights == get_trip_duration_days
             price  == estimated_prices(option_num, remaining_budget, nights) IN
         \/ IF HotelWithinBudget(price, remaining_budget)
            THEN /\ hotels' = [option |-> option_num, price |-> price, nights |-> nights]
                 /\ remaining_budget' = remaining_budget - price
                 /\ pc' = "menu"
                 /\ last' = Did("hotel_select", "booked", option_num, price)
                 /\ ops < MaxOps /\ ops' = ops + 1
            ELSE /\ last' = Did("hotel_select", "over_budget", option_num, price)
                 /\ ops' = ops
                 /\ UNCHANGED <<remaining_budget, hotels, pc>>
         \/ /\ last' = Did("hotel_select", "declined", option_num, price)
            /\ ops' = ops
            /\ UNCHANGED <<remaining_budget, hotels, pc>>
    /\ rt' = NoRT
    /\ UNCHANGED <<frontend, total_budget, departure, destination, departure_date,
                   return_date, travelers, flights, activities, flight_options,
                   current_step, pending_action>>
    /\ UNCHANGED service
    /\ UNCHANGED bench

\* cli.py:456  if price <= self.travel_plan.remaining_budget
CliHotelWithinBudget(price, budget) == price <= budget

\* '1'..'3' at the CLI's own hotel prompt; the user types the price, one of prices
CliHotelSelect(prices) ==
    /\ frontend = "fallback" /\ pc = "hotel_select"
    /\ \E choice \in HotelChoices, price \in prices :
         IF CliHotelWithinBudget(price, remaining_budget)
         THEN /\ hotels' = [option |-> choice, price |-> price,
                            nights |-> get_trip_duration_days]
              /\ remaining_budget' = remaining_budget - price
              /\ pc' = "menu"
              /\ last' = Did("hotel_select", "booked", choice, price)
              /\ ops < MaxOps /\ ops' = ops + 1
         ELSE /\ last' = Did("hotel_select", "over_budget", choice, price)
              /\ ops' = ops
              /\ UNCHANGED <<remaining_budget, hotels, pc>>
    /\ rt' = NoRT
    /\ UNCHANGED <<frontend, total_budget, departure, destination, departure_date,
                   return_date, travelers, flights, activities, flight_options,
                   current_step, pending_action>>
    /\ UNCHANGED service
    /\ UNCHANGED bench

cli_hotel_select == CliHotelSelect(PriceInputs)

---------------------------------------------------------------------------
(* Activities: TravelPlannerCLI.discuss_activities and                       *)
(* ActivityService.discuss_activities                                        *)

\* cli.py:474 and activity_service.py:20  if not travel_plan.hotels: return
ActivitySearchAllowed == hotels # None

discuss_activities ==
    /\ cli /\ pc = "menu"
    /\ IF ~ActivitySearchAllowed
       THEN /\ pc' = "menu"
            /\ last' = Did("discuss_activities", "refused", 0, 0)
       ELSE IF frontend = "fallback" /\ ~Divides(get_trip_duration_days)
       THEN /\ pc' = "crashed"
            /\ last' = Did("discuss_activities", "error", 0, 0)
       ELSE /\ pc' = "activity_select"
            /\ last' = Did("discuss_activities", "options", 0, 0)
    /\ ops' = ops
    /\ rt' = NoRT
    /\ UNCHANGED <<frontend, flight_options, current_step, pending_action>>
    /\ UNCHANGED plan
    /\ UNCHANGED service
    /\ UNCHANGED bench

\* 'X' at the activity prompt of the service: with nothing booked the user
\* is asked to confirm the skip; any answer but 'Y' stays in the loop
activity_skip ==
    /\ frontend = "services" /\ pc = "activity_select"
    /\ \/ /\ pc' = "menu"
          /\ last' = Did("activity_select", "skip", 0, 0)
       \/ /\ activities = <<>>
          /\ pc' = "activity_select"
          /\ last' = Did("activity_select", "skip_declined", 0, 0)
    /\ ops' = ops
    /\ rt' = NoRT
    /\ UNCHANGED <<frontend, flight_options, current_step, pending_action>>
    /\ UNCHANGED plan
    /\ UNCHANGED service
    /\ UNCHANGED bench

\* activity_service.py:89-100  activity_details[option_num]["price"]
activity_price(option_num, budget) ==
    CASE option_num = 1 -> Min(Pct(budget, 15), 50)
      [] option_num = 2 -> Min(Pct(budget, 10), 30)
      [] option_num = 3 -> Min(Pct(budget, 25), 80)
      [] option_num = 4 -> Min(Pct(budget, 15), 60)
      [] option_num = 5 -> Min(Pct(budget, 15), 45)

\* activity_service.py:114  if price <= travel_plan.remaining_budget
ActivityWithinBudget(price, budget) == price <= budget

\* '1'..'5' at the activity prompt of the service
activity_select ==
    /\ frontend = "services" /\ pc = "activity_select"
    /\ \E option_num \in ActivityChoices :
         LET price == activity_price(option_num, remaining_budget) IN
         \/ IF ActivityWithinBudget(price, remaining_budget)
            THEN /\ Len(activities) < MaxActs
                 /\ activities' = Append(activities, [option |-> option_num, price |-> price])
                 /\ remaining_budget' = remaining_budget - price
                 /\ last' = Did("activity_select", "booked", option_num, price)
                 /\ ops < MaxOps /\ ops' = ops + 1
                 /\ \E book_another \in BOOLEAN :
                       pc' = IF remaining_budget' > 0 /\ book_another
                             THEN "activity_select" ELSE "menu"
            ELSE /\ last' = Did("activity_select", "over_budget", option_num, price)
                 /\ ops' = ops
                 /\ UNCHANGED <<remaining_budget, activities, pc>>
         \/ /\ last' = Did("activity_select", "declined", option_num, price)
            /\ ops' = ops
            /\ UNCHANGED <<remaining_budget, activities, pc>>
    /\ rt' = NoRT
    /\ UNCHANGED <<frontend, total_budget, departure, destination, departure_date,
                   return_date, travelers, flights, hotels, flight_options,
                   current_step, pending_action>>
    /\ UNCHANGED service
    /\ UNCHANGED bench

\* 'X' or 'D' at the CLI's own activity prompt
cli_activity_done ==
    /\ frontend = "fallback" /\ pc = "activity_select"
    /\ pc' = "menu"
    /\ last' = Did("activity_select", "skip", 0, 0)
    /\ ops' = ops
    /\ rt' = NoRT
    /\ UNCHANGED <<frontend, flight_options, current_step, pending_action>>
    /\ UNCHANGED plan
    /\ UNCHANGED service
    /\ UNCHANGED bench

\* cli.py:524  if total_price <= self.travel_plan.remaining_budget
CliActivityWithinBudget(total_price, budget) == total_price <= budget

\* '1'..'5' at the CLI's own activity prompt; the user types the price per
\* person, one of prices
CliActivitySelect(prices) ==
    /\ frontend = "fallback" /\ pc = "activity_select"
    /\ \E choice \in ActivityChoices, price \in prices :
         LET total_price == price * travelers IN
         IF CliActivityWithinBudget(total_price, remaining_budget)
         THEN /\ Len(activities) < MaxActs
              /\ activities' = Append(activities, [option |-> choice, price |-> total_price])
              /\ remaining_budget' = remaining_budget - total_price
              /\ last' = Did("activity_select", "booked", choice, total_price)
              /\ ops < MaxOps /\ ops' = ops + 1
              /\ \E more \in BOOLEAN :
                    pc' = IF remaining_budget' > 0 /\ more
                          THEN "activity_select" ELSE "menu"
         ELSE /\ last' = Did("activity_select", "over_budget", choice, total_price)
              /\ ops' = ops
              /\ UNCHANGED <<remaining_budget, activities, pc>>
    /\ rt' = NoRT
    /\ UNCHANGED <<frontend, total_budget, departure, destination, departure_date,
                   return_date, travelers, flights, hotels, flight_options,
                   current_step, pending_action>>
    /\ UNCHANGED service
    /\ UNCHANGED bench

cli_activity_select == CliActivitySelect(PriceInputs)

---------------------------------------------------------------------------
(* HotelService.modify_hotel_booking                                         *)

\* hotel_service.py:223,232  price_per_night * new_nights, with
\* price_per_night = current_price / current_nights if current_nights > 0 else 0
\* (the float quotient is kept exact until the product is truncated)
adjusted_price(current_price, current_nights, new_nights) ==
    IF current_nights > 0 THEN (current_price * new_nights) \div current_nights ELSE 0

\* hotel_service.py:235  if price_difference > travel_plan.remaining_budget: return
Insufficient(price_difference, budget) == price_difference > budget

\* hotel_service.py:216  travel_plan.remaining_budget += travel_plan.hotels.get('price', 0)
refund(budget, price) == budget + price

\* choice 1: refund, clear, and search again
hotel_cancel ==
    /\ hotels # None
    /\ remaining_budget' = refund(remaining_budget, hotels.price)
    /\ hotels' = None
    /\ pc' = IF HotelSearchAllowed THEN "hotel_select" ELSE "menu"
    /\ last' = Did("modify_hotel_booking", "cancelled", hotels.option, hotels.price)
    /\ ops < MaxOps /\ ops' = ops + 1
    /\ rt' = [kind |-> "hotel", option |-> hotels.option,
              remaining |-> remaining_budget, booking |-> hotels]

\* choice 2: adjust the number of nights
hotel_nights ==
    /\ hotels # None
    /\ \E new_nights \in NightInputs :
         LET current_nights   == hotels.nights
             current_price    == hotels.price
             new_price        == adjusted_price(current_price, current_nights, new_nights)
             price_difference == new_price - current_price IN
         IF new_nights <= 0
         THEN /\ last' = Did("modify_hotel_booking", "invalid_nights", new_nights, 0)
              /\ ops' = ops
              /\ UNCHANGED <<remaining_budget, hotels>>
         ELSE IF Insufficient(price_difference, remaining_budget)
         THEN /\ last' = Did("modify_hotel_booking", "insufficient", new_nights, new_price)
              /\ ops' = ops
              /\ UNCHANGED <<remaining_budget, hotels>>
         ELSE /\ remaining_budget' = remaining_budget - price_difference
              /\ hotels' = [hotels EXCEPT !.nights = new_nights, !.price = new_price]
              /\ last' = Did("modify_hotel_booking", "adjusted", new_nights, new_price)
              /\ ops < MaxOps /\ ops' = ops + 1
    /\ pc' = "menu"
    /\ rt' = NoRT

\* no booking to modify, or choice 3 / anything else
hotel_unmodified ==
    /\ last' = Did("modify_hotel_booking", IF hotels = None THEN "no_booking" ELSE "back", 0, 0)
    /\ ops' = ops
    /\ pc' = "menu"
    /\ rt' = NoRT
    /\ UNCHANGED <<remaining_budget, hotels>>

modify_hotel_booking ==
    /\ frontend = "services" /\ pc = "menu"
    /\ \/ hotel_cancel
       \/ hotel_nights
       \/ hotel_unmodified
    /\ UNCHANGED <<frontend, total_budget, departure, destination, departure_date,
                   return_date, travelers, flights, activities, flight_options,
                   current_step, pending_action>>
    /\ UNCHANGED service
    /\ UNCHANGED bench

---------------------------------------------------------------------------
(* ActivityService.modify_activities                                         *)

\* the number typed at "Enter the number of the activity to remove", a float
\* not below 0: a whole part, and whether a fractional part follows it
IndexInputs == (0 .. (MaxActs + 1)) \X BOOLEAN

\* activity_service.py:283
\* if not index.is_integer() or index < 1 or index > len(travel_plan.activities)
InvalidIndex(whole, fraction, len) ==
    fraction \/ whole < 1 \/ whole > len

\* list.pop(index - 1)
RemoveAt(s, index) == SubSeq(s, 1, index - 1) \o SubSeq(s, index + 1, Len(s))

\* entry: with nothing booked the method returns at once
modify_activities ==
    /\ frontend = "services" /\ pc = "menu"
    /\ pc' = IF activities = <<>> THEN "menu" ELSE "modify_activities"
    /\ last' = Did("modify_activities", IF activities = <<>> THEN "no_activities" ELSE "menu", 0, 0)
    /\ ops' = ops
    /\ rt' = NoRT
    /\ UNCHANGED <<frontend, flight_options, current_step, pending_action>>
    /\ UNCHANGED plan
    /\ UNCHANGED service
    /\ UNCHANGED bench

\* choice 1: remove an activity
remove_activity ==
    /\ frontend = "services" /\ pc = "modify_activities"
    /\ IF Len(activities) = 0
       THEN /\ last' = Did("remove_activity", "nothing_to_remove", 0, 0)
            /\ ops' = ops
            /\ rt' = NoRT
            /\ UNCHANGED <<remaining_budget, activities>>
       ELSE \E input \in IndexInputs :
              IF InvalidIndex(input[1], input[2], Len(activities))
              THEN /\ last' = Did("remove_activity",
                                  IF input[2] THEN "not_whole" ELSE "invalid_index",
                                  input[1], 0)
                   /\ ops' = ops
                   /\ rt' = NoRT
                   /\ UNCHANGED <<remaining_budget, activities>>
              ELSE LET index   == input[1]
                       removed == activities[index] IN
                   /\ activities' = RemoveAt(activities, index)
                   /\ remaining_budget' = remaining_budget + removed.price
                   /\ last' = Did("remove_activity", "removed", index, removed.price)
                   /\ ops < MaxOps /\ ops' = ops + 1
                   /\ rt' = [kind |-> "activity", option |-> removed.option,
                             remaining |-> remaining_budget, booking |-> removed]
    /\ pc' = "modify_activities"
    /\ UNCHANGED <<frontend, total_budget, departure, destination, departure_date,
                   return_date, travelers, flights, hotels, flight_options,
                   current_step, pending_action>>
    /\ UNCHANGED service
    /\ UNCHANGED bench

\* choice 2: add new activities (discuss_activities, then return)
modify_activities_add ==
    /\ frontend = "services" /\ pc = "modify_activities"
    /\ IF ~ActivitySearchAllowed
       THEN /\ pc' = "menu"
            /\ last' = Did("discuss_activities", "refused", 0, 0)
       ELSE /\ pc' = "activity_select"
            /\ last' = Did("discuss_activities", "options", 0, 0)
    /\ ops' = ops
    /\ rt' = rt
    /\ UNCHANGED <<frontend, flight_options, current_step, pending_action>>
    /\ UNCHANGED plan
    /\ UNCHANGED service
    /\ UNCHANGED bench

\* choice 3
modify_activities_back ==
    /\ frontend = "services" /\ pc = "modify_activities"
    /\ pc' = "menu"
    /\ last' = Did("modify_activities", "back", 0, 0)
    /\ ops' = ops
    /\ rt' = NoRT
    /\ UNCHANGED <<frontend, flight_options, current_step, pending_action>>
    /\ UNCHANGED plan
    /\ UNCHANGED service
    /\ UNCHANGED bench

---------------------------------------------------------------------------
(* The conversational web flow: IntegratedTravelAgent.process_input          *)
(* dispatches one chat message on current_step.  An exception raised by a    *)
(* handler is caught by process_input and leaves the session as it was at    *)
(* the raise.                                                                *)

web == frontend = "web"

\* _process_destination and _process_departure: find_iata_code resolves or not
process_destination ==
    /\ web /\ current_step = "destination"
    /\ \/ /\ \E loc \in Locations : destination' = loc
          /\ current_step' = "departure"
          /\ last' = Did("process_destination", "ok", 0, 0)
       \/ /\ last' = Did("process_destination", "invalid", 0, 0)
          /\ UNCHANGED <<destination, current_step>>
    /\ ops' = ops
    /\ rt' = NoRT
    /\ UNCHANGED <<frontend, total_budget, remaining_budget, departure, departure_date,
                   return_date, travelers, flights, hotels, activities, pc,
                   flight_options, pending_action>>
    /\ UNCHANGED service
    /\ UNCHANGED bench

process_departure ==
    /\ web /\ current_step = "departure"
    /\ \/ /\ \E loc \in Locations : departure' = loc
          /\ current_step' = "dates"
          /\ last' = Did("process_departure", "ok", 0, 0)
       \/ /\ last' = Did("process_departure", "invalid", 0, 0)
          /\ UNCHANGED <<departure, current_step>>
    /\ ops' = ops
    /\ rt' = NoRT
    /\ UNCHANGED <<frontend, total_budget, remaining_budget, destination, departure_date,
                   return_date, travelers, flights, hotels, activities, pc,
                   flight_options, pending_action>>
    /\ UNCHANGED service
    /\ UNCHANGED bench

\* _process_dates: two dates of the right format, in whatever order
process_dates ==
    /\ web /\ current_step = "dates"
    /\ \/ /\ \E d \in WebDateInputs, r \in WebDateInputs :
                /\ departure_date' = d
                /\ return_date' = r
          /\ current_step' = "travelers"
          /\ last' = Did("process_dates", "ok", 0, 0)
       \/ /\ last' = Did("process_dates", "invalid", 0, 0)
          /\ UNCHANGED <<departure_date, return_date, current_step>>
    /\ ops' = ops
    /\ rt' = NoRT
    /\ UNCHANGED <<frontend, total_budget, remaining_budget, departure, destination,
                   travelers, flights, hotels, activities, pc, flight_options,
                   pending_action>>
    /\ UNCHANGED service
    /\ UNCHANGED bench

\* _process_travelers: int(user_input) > 0
process_travelers ==
    /\ web /\ current_step = "travelers"
    /\ \/ /\ \E n \in TravelerInputs :
                /\ n > 0
                /\ travelers' = n
          /\ current_step' = "budget"
          /\ last' = Did("process_travelers", "ok", 0, 0)
       \/ /\ last' = Did("process_travelers", "invalid", 0, 0)
          /\ UNCHANGED <<travelers, current_step>>
    /\ ops' = ops
    /\ rt' = NoRT
    /\ UNCHANGED <<frontend, total_budget, remaining_budget, departure, destination,
                   departure_date, return_date, flights, hotels, activities, pc,
                   flight_options, pending_action>>
    /\ UNCHANGED service
    /\ UNCHANGED bench

\* _process_budget: float(user_input) > 0
process_budget ==
    /\ web /\ current_step = "budget"
    /\ \/ /\ \E budget \in BudgetInputs :
                /\ budget > 0
                /\ total_budget' = budget
                /\ remaining_budget' = budget
                /\ last' = Did("process_budget", "ok", 0, budget)
          /\ current_step' = "flights"
       \/ /\ last' = Did("process_budget", "invalid", 0, 0)
          /\ UNCHANGED <<total_budget, remaining_budget, current_step>>
    /\ ops' = ops
    /\ rt' = NoRT
    /\ UNCHANGED <<frontend, departure, destination, departure_date, return_date,
                   travelers, flights, hotels, activities, pc, flight_options,
                   pending_action>>
    /\ UNCHANGED service
    /\ UNCHANGED bench

\* pui.py:213  if price <= st.session_state.travel_plan.remaining_budget
WebFlightWithinBudget(price, budget) == price <= budget

\* _process_flights, and _book_flight while a flight selection is pending.
\* _book_flight searches again; flights['data'][option] raises when the
\* provider gave nothing or fewer offers than the number typed.
process_flights ==
    /\ web /\ current_step = "flights"
    /\ \/ /\ pending_action' = "book_flight"
          /\ last' = Did("process_flights", "options", 0, 0)
          /\ ops' = ops
          /\ UNCHANGED <<remaining_budget, flights, current_step>>
       \/ /\ current_step' = "hotels"
          /\ last' = Did("process_flights", "no", 0, 0)
          /\ ops' = ops
          /\ UNCHANGED <<remaining_budget, flights, pending_action>>
       \/ /\ pending_action = "book_flight"
          /\ \/ \E choice \in 1 .. 3, data \in FlightResults :
                  IF choice - 1 < Len(data)
                  THEN LET price == data[choice] IN
                       IF WebFlightWithinBudget(price, remaining_budget)
                       THEN /\ flights' = [option |-> choice, price |-> price]
                            /\ remaining_budget' = remaining_budget - price
                            /\ current_step' = "hotels"
                            /\ pending_action' = "None"
                            /\ last' = Did("book_flight", "booked", choice, price)
                            /\ ops < MaxOps /\ ops' = ops + 1
                       ELSE /\ last' = Did("book_flight", "over_budget", choice, price)
                            /\ ops' = ops
                            /\ UNCHANGED <<remaining_budget, flights, current_step,
                                           pending_action>>
                  ELSE /\ last' = Did("book_flight", "error", choice, 0)
                       /\ ops' = ops
                       /\ UNCHANGED <<remaining_budget, flights, current_step,
                                      pending_action>>
             \/ /\ current_step' = "hotels"
                /\ pending_action' = "None"
                /\ last' = Did("book_flight", "skip", 0, 0)
                /\ ops' = ops
                /\ UNCHANGED <<remaining_budget, flights>>
             \/ /\ last' = Did("book_flight", "invalid", 0, 0)
                /\ ops' = ops
                /\ UNCHANGED <<remaining_budget, flights, current_step, pending_action>>
    /\ rt' = NoRT
    /\ UNCHANGED <<frontend, total_budget, departure, destination, departure_date,
                   return_date, travelers, hotels, activities, pc, flight_options>>
    /\ UNCHANGED service
    /\ UNCHANGED bench

\* pui.py:259  price = 100 * int(user_input) * nights
web_hotel_price(option, nights) == 100 * option * nights

\* pui.py:261  if price <= st.session_state.travel_plan.remaining_budget
WebHotelWithinBudget(price, budget) == price <= budget

\* _process_hotels, and _book_hotel while a hotel selection is pending
process_hotels ==
    /\ web /\ current_step = "hotels"
    /\ LET nights == return_date - departure_date IN
       \/ /\ IF Divides(nights)
             THEN /\ pending_action' = "book_hotel"
                  /\ last' = Did("process_hotels", "options", 0, 0)
             ELSE /\ last' = Did("process_hotels", "error", 0, 0)
                  /\ UNCHANGED pending_action
          /\ ops' = ops
          /\ UNCHANGED <<remaining_budget, hotels, current_step>>
       \/ /\ current_step' = "activities"
          /\ last' = Did("process_hotels", "no", 0, 0)
          /\ ops' = ops
          /\ UNCHANGED <<remaining_budget, hotels, pending_action>>
       \/ /\ pending_action = "book_hotel"
          /\ \/ \E option \in 1 .. 3 :
                  LET price == web_hotel_price(option, nights) IN
                  IF WebHotelWithinBudget(price, remaining_budget)
                  THEN /\ hotels' = [option |-> option, price |-> price, nights |-> nights]
                       /\ remaining_budget' = remaining_budget - price
                       /\ current_step' = "activities"
                       /\ pending_action' = "None"
                       /\ last' = Did("book_hotel", "booked", option, price)
                       /\ ops < MaxOps /\ ops' = ops + 1
                  ELSE /\ last' = Did("book_hotel", "over_budget", option, price)
                       /\ ops' = ops
                       /\ UNCHANGED <<remaining_budget, hotels, current_step,
                                      pending_action>>
             \/ /\ current_step' = "activities"
                /\ pending_action' = "None"
                /\ last' = Did("book_hotel", "skip", 0, 0)
                /\ ops' = ops
                /\ UNCHANGED <<remaining_budget, hotels>>
             \/ /\ last' = Did("book_hotel", "invalid", 0, 0)
                /\ ops' = ops
                /\ UNCHANGED <<remaining_budget, hotels, current_step, pending_action>>
    /\ rt' = NoRT
    /\ UNCHANGED <<frontend, total_budget, departure, destination, departure_date,
                   return_date, travelers, flights, activities, pc, flight_options>>
    /\ UNCHANGED service
    /\ UNCHANGED bench

\* pui.py:318-322  total_cost: only the numbers 1..5 are priced
RECURSIVE total_cost(_)
total_cost(selected) ==
    IF selected = <<>> THEN 0
    ELSE (IF 1 <= Head(selected) /\ Head(selected) <= 5 THEN 50 * Head(selected) ELSE 0)
         + total_cost(Tail(selected))

\* pui.py:328-332  every selected number is appended, at 50 * num
appended(selected) ==
    [i \in 1 .. Len(selected) |-> [option |-> selected[i], price |-> 50 * selected[i]]]

\* pui.py:324  if total_cost <= st.session_state.travel_plan.remaining_budget
WebActivitiesWithinBudget(cost, budget) == cost <= budget

\* _process_activities, and _add_activities while a selection is pending
process_activities ==
    /\ web /\ current_step = "activities"
    /\ LET days == return_date - departure_date IN
       \/ /\ IF Divides(days)
             THEN /\ pending_action' = "add_activities"
                  /\ last' = Did("process_activities", "options", 0, 0)
             ELSE /\ last' = Did("process_activities", "error", 0, 0)
                  /\ UNCHANGED pending_action
          /\ ops' = ops
          /\ UNCHANGED <<remaining_budget, activities, current_step>>
       \/ /\ current_step' = "summary"
          /\ last' = Did("process_activities", "no", 0, 0)
          /\ ops' = ops
          /\ UNCHANGED <<remaining_budget, activities, pending_action>>
       \/ /\ pending_action = "add_activities"
          /\ \/ /\ current_step' = "summary"
                /\ pending_action' = "None"
                /\ last' = Did("add_activities", "done", 0, 0)
                /\ ops' = ops
                /\ UNCHANGED <<remaining_budget, activities>>
             \/ /\ \E selected \in WebSelections :
                     LET cost == total_cost(selected) IN
                     IF ~Divides(days)
                     THEN /\ last' = Did("add_activities", "error", Len(selected), 0)
                          /\ ops' = ops
                          /\ UNCHANGED <<remaining_budget, activities>>
                     ELSE IF WebActivitiesWithinBudget(cost, remaining_budget)
                     THEN /\ Len(activities) + Len(selected) <= MaxActs
                          /\ activities' = activities \o appended(selected)
                          /\ remaining_budget' = remaining_budget - cost
                          /\ last' = Did("add_activities", "booked", Len(selected), cost)
                          /\ ops < MaxOps /\ ops' = ops + 1
                     ELSE /\ last' = Did("add_activities", "over_budget", Len(selected), cost)
                          /\ ops' = ops
                          /\ UNCHANGED <<remaining_budget, activities>>
                /\ UNCHANGED <<current_step, pending_action>>
             \/ /\ last' = Did("add_activities", "invalid", 0, 0)
                /\ ops' = ops
                /\ UNCHANGED <<remaining_budget, activities, current_step, pending_action>>
    /\ rt' = NoRT
    /\ UNCHANGED <<frontend, total_budget, departure, destination, departure_date,
                   return_date, travelers, flights, hotels, pc, flight_options>>
    /\ UNCHANGED service
    /\ UNCHANGED bench

\* _process_summary: prints the itinerary
process_summary ==
    /\ web /\ current_step = "summary"
    /\ last' = Did("process_summary", "ok", 0, 0)
    /\ ops' = ops
    /\ rt' = NoRT
    /\ UNCHANGED <<frontend, pc, flight_options, current_step, pending_action>>
    /\ UNCHANGED plan
    /\ UNCHANGED service
    /\ UNCHANGED bench

Next ==
    \/ collect_initial_details
    \/ edit_travel_details
    \/ search_flights
    \/ flight_skip
    \/ flight_select
    \/ flight_budget
    \/ modify_flight_criteria
    \/ handle_no_flights_found
    \/ cli_search_flights
    \/ cli_modify_search
    \/ cli_flight_select
    \/ discuss_hotels
    \/ hotel_skip
    \/ hotel_select
    \/ cli_hotel_select
    \/ discuss_activities
    \/ activity_skip
    \/ activity_select
    \/ cli_activity_done
    \/ cli_activity_select
    \/ modify_hotel_booking
    \/ modify_activities
    \/ remove_activity
    \/ modify_activities_add
    \/ modify_activities_back
    \/ process_destination
    \/ process_departure
    \/ process_dates
    \/ process_travelers
    \/ process_budget
    \/ process_flights
    \/ process_hotels
    \/ process_activities
    \/ process_summary

Spec == Init /\ [][Next]_vars

---------------------------------------------------------------------------
(* The command-line front end without services (cli.py's own booking loops)  *)
(* run with the amounts of a worked example: a budget of 2000, a flight      *)
(* offer of 500, and typed prices of 900, 250 and 100.                       *)

ScenarioBudgets == {2000}
ScenarioFlights == { <<500>> }
ScenarioPrices == {100, 250, 900}

ScenarioInit == Init /\ frontend = "fallback"

scenario_details == CollectInitialDetails(ScenarioBudgets)
scenario_search_flights == CliSearchFlights(ScenarioFlights)
scenario_hotel_select == CliHotelSelect(ScenarioPrices)
scenario_activity_select == CliActivitySelect(ScenarioPrices)

ScenarioNext ==
    \/ scenario_details
    \/ scenario_search_flights
    \/ flight_skip
    \/ cli_flight_select
    \/ discuss_hotels
    \/ hotel_skip
    \/ scenario_hotel_select
    \/ discuss_activities
    \/ cli_activity_done
    \/ scenario_activity_select

ScenarioSpec == ScenarioInit /\ [][ScenarioNext]_vars

----------------------------------------------------------------------------
(* AmadeusTokenManager (src/services/api_service.py).  get_token blocks on   *)
(* the credential exchange and on time.sleep; it is cut at each POST, so     *)
(* that call.pc = "loop" is a call waiting for the next answer and "done" a  *)
(* call that has returned call.result (0 is Python's None).  A token is      *)
(* named by the number of the get_token call that obtained it.               *)

max_retries == 3
retry_delay == 2
expiry_buffer == 300
default_expires_in == 1800

\* bounds of the service model
MaxCalls == 2
MaxNow == 1500

\* the clock advances between operations
Elapses == {300, 1500}

\* answers to the credential exchange: access granted, with or without an
\* expires_in; rate limited, with or without a Retry-After; a client error, a
\* server error, and a request that raised
Responses ==
    {[status |-> 200, retry_after |-> Unset, expires_in |-> e] : e \in {Unset, 600}}
    \cup {[status |-> 429, retry_after |-> r, expires_in |-> Unset] : r \in {Unset, 7}}
    \cup {[status |-> st, retry_after |-> Unset, expires_in |-> Unset] :
              st \in {400, 503, NetworkError}}

\* get_token: "if self.token and time.time() < (self.expiry_time - 300)"
Fresh(token, t, expiry_time) == token # 0 /\ t < expiry_time - expiry_buffer

\* get_token: "while retries < self.max_retries"
Retrying(retries) == retries < max_retries

\* get_token: "if response.status_code >= 500"
IsServerError(status) == status >= 500

\* get_token up to its first POST
GetToken(by) ==
    /\ calls' = calls + 1
    /\ call' = IF Fresh(tm.token, now, tm.expiry_time)
               THEN [NoCall EXCEPT !.pc = "done", !.by = by,
                                   !.result = tm.token, !.cached = TRUE]
               ELSE [NoCall EXCEPT !.pc = IF Retrying(0) THEN "loop" ELSE "done",
                                   !.by = by]
    /\ UNCHANGED <<tm, now>>

\* a Retry-After header that is not a whole number of seconds (an HTTP date):
\* int() raises ValueError on it, which get_token does not catch
HttpDate == 0 - 2

\* one pass of get_token's loop: the POST, its answer (one of responses), the
\* sleep, retries += 1
Exchange(responses) ==
    /\ call.pc = "loop"
    /\ \E response \in responses :
         LET status == response.status
             backoff == retry_delay * 2^(call.retries)
             ttl == IF response.expires_in = Unset THEN default_expires_in
                    ELSE response.expires_in
             wait == IF status = 429
                     THEN IF response.retry_after = Unset THEN backoff
                          ELSE response.retry_after
                     ELSE IF status = NetworkError \/ IsServerError(status)
                          THEN backoff ELSE 0
             break == status # 429 /\ status # NetworkError /\ ~IsServerError(status)
             attempt == [call EXCEPT !.exchanges = @ + 1, !.status = status,
                                     !.waited = wait]
         IN IF status = 200
            THEN /\ tm' = [token |-> calls, expiry_time |-> now + ttl]
                 /\ call' = [attempt EXCEPT !.pc = "done", !.result = calls]
                 /\ now' = now
            ELSE IF status = 429 /\ response.retry_after = HttpDate
            THEN /\ call' = [attempt EXCEPT !.pc = "raised", !.result = 0,
                                            !.waited = 0]
                 /\ UNCHANGED <<tm, now>>
            ELSE IF break
            THEN /\ call' = [attempt EXCEPT !.pc = "done", !.result = 0]
                 /\ UNCHANGED <<tm, now>>
            ELSE /\ call' = [attempt EXCEPT
                               !.retries = @ + 1,
                               !.server_errors = IF status >= 500 THEN @ + 1 ELSE @,
                               !.pc = IF Retrying(call.retries + 1) THEN "loop"
                                      ELSE "done",
                               !.result = 0]
                 /\ now' = now + wait
                 /\ tm' = tm
    /\ UNCHANGED <<calls, fs, location_cache, res>>
    /\ UNCHANGED planner
    /\ UNCHANGED bench

exchange == Exchange(Responses)

\* time passes while nothing is being sent
elapse ==
    /\ call.pc # "loop"
    /\ now < MaxNow
    /\ \E d \in Elapses : now' = now + d
    /\ UNCHANGED <<tm, call, calls, fs, location_cache, res>>
    /\ UNCHANGED planner
    /\ UNCHANGED bench

----------------------------------------------------------------------------
(* The flight query: FlightService.search_amadeus_flights with the services, *)
(* api_wrappers.search_flights without them.  fs.access_token is             *)
(* FlightService.access_token, or the wrapper's local token.                 *)

\* answers to the flight-offers request
QueryAnswers == {200, 401, 500, NetworkError}

\* search_amadeus_flights: "if not self.access_token: return {}";
\* api_wrappers.search_flights: "if not token: return None"
Authenticated(access_token) == access_token # 0

\* search_amadeus_flights: "elif response.status_code == 401"
IsExpired(status) == status = 401

\* FlightService.__init__: self.access_token = get_token()
fs_init ==
    /\ frontend = "services"
    /\ fs.pc = "new"
    /\ call.pc # "loop"
    /\ GetToken("init")
    /\ fs' = [fs EXCEPT !.pc = "await_init"]
    /\ UNCHANGED <<location_cache, res>>
    /\ UNCHANGED planner
    /\ UNCHANGED bench

\* a flight search begins: the services client asks for a token only if it
\* holds none, the wrapper always asks
fs_search ==
    /\ fs.pc = "idle"
    /\ res.pc \in {"idle", "done"}
    /\ call.pc # "loop"
    /\ calls < MaxCalls
    /\ IF frontend = "services" /\ fs.access_token # 0
       THEN /\ fs' = [fs EXCEPT !.pc = "send", !.requests = 0, !.refreshes = 0,
                                !.status = 0, !.result = "pending"]
            /\ UNCHANGED <<tm, now, call, calls>>
       ELSE /\ GetToken("search")
            /\ fs' = [fs EXCEPT !.pc = "await_search", !.requests = 0,
                                !.refreshes = 0, !.status = 0,
                                !.result = "pending"]
    /\ UNCHANGED <<location_cache, res>>
    /\ UNCHANGED planner
    /\ UNCHANGED bench

\* get_token has returned to the flight client
fs_token ==
    /\ call.pc = "done"
    /\ fs.pc \in {"await_init", "await_search", "await_refresh"}
    /\ fs' = IF fs.pc = "await_init"
             THEN [fs EXCEPT !.access_token = call.result, !.pc = "idle"]
             ELSE IF Authenticated(call.result)
             THEN [fs EXCEPT !.access_token = call.result,
                             !.pc = IF fs.pc = "await_search" THEN "send"
                                    ELSE "resend"]
             ELSE [fs EXCEPT !.access_token = call.result, !.pc = "idle",
                             !.result = "empty"]
    /\ UNCHANGED <<tm, now, call, calls, location_cache, res>>
    /\ UNCHANGED planner
    /\ UNCHANGED bench

\* the flight-offers request and its answer; only the services client reacts
\* to 401
fs_request ==
    /\ fs.pc = "send"
    /\ \E status \in QueryAnswers :
         IF status = 200
         THEN /\ fs' = [fs EXCEPT !.requests = @ + 1, !.status = status,
                                  !.pc = "idle", !.result = "offers"]
              /\ UNCHANGED <<tm, now, call, calls>>
         ELSE IF frontend = "services" /\ IsExpired(status)
         THEN /\ GetToken("refresh")
              /\ fs' = [fs EXCEPT !.requests = @ + 1, !.refreshes = @ + 1,
                                  !.status = status, !.pc = "await_refresh"]
         ELSE /\ fs' = [fs EXCEPT !.requests = @ + 1, !.status = status,
                                  !.pc = "idle", !.result = "empty"]
              /\ UNCHANGED <<tm, now, call, calls>>
    /\ UNCHANGED <<location_cache, res>>
    /\ UNCHANGED planner
    /\ UNCHANGED bench

\* the request sent again after the refresh, and its answer
fs_resend ==
    /\ fs.pc = "resend"
    /\ \E status \in QueryAnswers :
         fs' = [fs EXCEPT !.requests = @ + 1, !.status = status, !.pc = "idle",
                          !.result = IF status = 200 THEN "offers" ELSE "empty"]
    /\ UNCHANGED <<tm, now, call, calls, location_cache, res>>
    /\ UNCHANGED planner
    /\ UNCHANGED bench

TokenNext ==
    \/ exchange
    \/ elapse
    \/ fs_init
    \/ fs_search
    \/ fs_token
    \/ fs_request
    \/ fs_resend

\* the two ways of querying flights: with the services, and through the wrappers
TokenInit == Init /\ cli

TokenSpec == TokenInit /\ [][TokenNext]_vars

----------------------------------------------------------------------------
(* LocationService.find_iata_code (src/services/api_service.py).  The call   *)
(* is cut where it waits for an answer: for get_token, for the provider's    *)
(* location search, for the geocoder.  Its recursion is a tail call, so the  *)
(* frame in res stands for the innermost call; res.origin is the text of the *)
(* outermost one and the counters run over the whole of it.                  *)

\* bounds of the resolver model
MaxResolves == 2
MaxDepth == 1

\* texts a user types, and localities the geocoder names
ResolveInputs == {"Casablanca", "Lyon", "Gare de Lyon"}
Localities == {"Casablanca", "Lyon"}

\* str.lower() on the texts and names of the model
lower(location_name) ==
    CASE location_name = "Casablanca" -> "casablanca"
      [] location_name = "Lyon" -> "lyon"
      [] location_name = "LYON" -> "lyon"
      [] location_name = "Gare de Lyon" -> "gare de lyon"
      [] location_name = "LYON PART DIEU" -> "lyon part dieu"
      [] OTHER -> location_name

\* LocationService.special_cases
special_keys == {"abidjan", "maroc", "casablanca", "kigali", "nairobi", "dakar"}

special_cases ==
    [k \in special_keys |->
        CASE k = "abidjan" -> [iata |-> "ABJ", name |-> "Abidjan"]
          [] k = "maroc" -> [iata |-> "CMN", name |-> "Casablanca"]
          [] k = "casablanca" -> [iata |-> "CMN", name |-> "Casablanca"]
          [] k = "kigali" -> [iata |-> "KGL", name |-> "Kigali"]
          [] k = "nairobi" -> [iata |-> "NBO", name |-> "Nairobi"]
          [] OTHER -> [iata |-> "DKR", name |-> "Dakar"]]

\* self.location_cache[key] = result
cached(cache, key, result) ==
    [k \in DOMAIN cache \cup {key} |-> IF k = key THEN result ELSE cache[k]]

\* answers to the provider's location search: a status and the 'data' list
Lys == [iataCode |-> "LYS", name |-> "LYON"]
Xyd == [iataCode |-> "XYD", name |-> "LYON PART DIEU"]

LookupAnswers ==
    {[status |-> 200, data |-> d] : d \in {<<>>, <<Lys>>, <<Xyd, Lys>>}}
    \cup {[status |-> st, data |-> <<>>] : st \in {500, NetworkError}}

NoAnswer == [status |-> Unset, data |-> <<>>]

\* answers of the geocoder: nothing found (or an exception), an address with
\* no locality, an address with one
GeocodeAnswers ==
    {[found |-> FALSE, locality |-> ""], [found |-> TRUE, locality |-> ""]}
    \cup {[found |-> TRUE, locality |-> c] : c \in Localities}

\* difflib.SequenceMatcher(None, a, b).ratio(), in thousandths, on the
\* lower-cased texts and names of the model
ratio(a, b) ==
    CASE a = b -> 1000
      [] {a, b} = {"lyon", "lyon part dieu"} -> 444
      [] {a, b} = {"lyon", "gare de lyon"} -> 500
      [] {a, b} = {"gare de lyon", "lyon part dieu"} -> 307
      [] {a, b} = {"gare de lyon", "paris"} -> 235
      [] {a, b} = {"lyon part dieu", "paris"} -> 421
      [] {a, b} = {"lyon", "paris"} -> 0
      [] OTHER -> 0

\* _find_best_match: the score of one location against the input
score(input_name, loc) ==
    ratio(lower(input_name), lower(loc.name))
        + (IF lower(input_name) = lower(loc.name) THEN 500 ELSE 0)

\* _find_best_match: the first location of the highest score, locations[0]
\* if no score is positive
RECURSIVE best_from(_, _, _, _, _)
best_from(input_name, locations, i, best_score, best_match) ==
    IF i > Len(locations) THEN best_match
    ELSE IF score(input_name, locations[i]) > best_score
         THEN best_from(input_name, locations, i + 1,
                        score(input_name, locations[i]), locations[i])
         ELSE best_from(input_name, locations, i + 1, best_score, best_match)

find_best_match(input_name, locations) ==
    best_from(input_name, locations, 1, 0, locations[1])

\* find_iata_code: "if response.status_code == 200: ... if data.get('data')"
HasData(answer) == answer.status = 200 /\ answer.data # <<>>

\* find_iata_code from its first line to its first wait: the cache, the
\* special cases, then get_token; frame is the call's record on entry
Enter(frame) ==
    LET lower_input == lower(frame.text) IN
    IF lower_input \in DOMAIN location_cache
    THEN /\ res' = [frame EXCEPT !.pc = "done", !.hit = "cache",
                                 !.result = location_cache[lower_input]]
         /\ UNCHANGED <<location_cache, tm, now, call, calls>>
    ELSE IF lower_input \in DOMAIN special_cases
    THEN /\ res' = [frame EXCEPT !.pc = "done", !.hit = "special",
                                 !.result = special_cases[lower_input]]
         /\ location_cache' = cached(location_cache, lower_input,
                                     special_cases[lower_input])
         /\ UNCHANGED <<tm, now, call, calls>>
    ELSE /\ GetToken("resolve")
         /\ res' = [frame EXCEPT !.pc = "await_token", !.tokens = @ + 1]
         /\ UNCHANGED location_cache

\* FlightService.get_location_input calls find_iata_code with a typed text
find_iata_code ==
    /\ frontend = "services"
    /\ fs.pc = "idle"
    /\ res.pc \in {"idle", "done"}
    /\ call.pc # "loop"
    /\ res.n < MaxResolves
    /\ \E location_name \in ResolveInputs :
         Enter([NoResolve EXCEPT !.origin = location_name,
                                 !.text = location_name, !.n = res.n + 1])
    /\ UNCHANGED fs
    /\ UNCHANGED planner
    /\ UNCHANGED bench

\* get_token has returned to find_iata_code: "if token:"
resolve_token ==
    /\ res.pc = "await_token"
    /\ call.pc = "done"
    /\ res' = [res EXCEPT !.pc = IF call.result # 0 THEN "lookup" ELSE "geocode"]
    /\ UNCHANGED <<tm, now, call, calls, fs, location_cache>>
    /\ UNCHANGED planner
    /\ UNCHANGED bench

\* the provider's location search and its answer
resolve_lookup ==
    /\ res.pc = "lookup"
    /\ \E answer \in LookupAnswers :
         IF HasData(answer)
         THEN LET best_match == find_best_match(res.text, answer.data)
                  result == [iata |-> best_match.iataCode,
                             name |-> best_match.name]
              IN /\ res' = [res EXCEPT !.pc = "done", !.lookups = @ + 1,
                                       !.lookup = answer, !.hit = "provider",
                                       !.result = result]
                 /\ location_cache' = cached(location_cache, lower(res.text),
                                             result)
         ELSE /\ res' = [res EXCEPT !.pc = "geocode", !.lookups = @ + 1,
                                    !.lookup = answer]
              /\ UNCHANGED location_cache
    /\ UNCHANGED <<tm, now, call, calls, fs>>
    /\ UNCHANGED planner
    /\ UNCHANGED bench

\* the geocoder and its answer; a locality re-enters find_iata_code
resolve_geocode ==
    /\ res.pc = "geocode"
    /\ \E answer \in GeocodeAnswers :
         IF answer.found /\ answer.locality # ""
         THEN /\ res.depth < MaxDepth
              /\ Enter([res EXCEPT !.text = answer.locality, !.depth = @ + 1,
                                   !.geocodes = @ + 1, !.lookup = NoAnswer])
         ELSE /\ res' = [res EXCEPT !.pc = "done", !.geocodes = @ + 1,
                                    !.hit = "none", !.result = None]
              /\ UNCHANGED <<tm, now, call, calls, location_cache>>
    /\ UNCHANGED fs
    /\ UNCHANGED planner
    /\ UNCHANGED bench

ResolverNext ==
    \/ fs_init
    \/ fs_token
    \/ exchange
    \/ find_iata_code
    \/ resolve_token
    \/ resolve_lookup
    \/ resolve_geocode

\* the location service exists only inside FlightService
ResolverInit == Init /\ frontend = "services"

ResolverSpec == ResolverInit /\ [][ResolverNext]_vars

----------------------------------------------------------------------------
(* HotelService.get_hotel_suggestions and                                    *)
(* ActivityService.get_activity_suggestions: the parsing of the generated    *)
(* text into options.  A line of the text is modelled by what the parser     *)
(* looks at: header is the digit n of a leading "n." or "Option n:" /        *)
(* "Activity n:" (0 if none), plain says that the line has no ':' and more   *)
(* than 5 characters, early that it has one of the words the hotel parser    *)
(* tests before the price, priced that it has 'price' or '$', parses that    *)
(* float() accepts what follows the first '$', amount the value then read.   *)

MaxLines == 3

PlainLine(header) ==
    [header |-> header, plain |-> TRUE, early |-> FALSE, priced |-> FALSE,
     parses |-> FALSE, amount |-> 0]

PriceLine(parses, amount) ==
    [header |-> 0, plain |-> FALSE, early |-> FALSE, priced |-> TRUE,
     parses |-> parses, amount |-> amount]

\* "Here are some ideas for you", "1. Grand Hotel Central", "4. ...",
\* "Price: $120", "Price: about a hundred", "Price: $-20 after rebate"
Lines ==
    {PlainLine(0), PlainLine(1), PlainLine(4),
     PriceLine(TRUE, 120), PriceLine(FALSE, 0), PriceLine(TRUE, 0 - 20)}

RECURSIVE TextsOf(_)
TextsOf(n) ==
    IF n = 0 THEN {<<>>}
    ELSE TextsOf(n - 1) \cup
         {Append(t, l) : t \in {u \in TextsOf(n - 1) : Len(u) = n - 1}, l \in Lines}

\* what the language model may answer, and the other arguments
Generated == TextsOf(MaxLines)
SuggestBudgets == {400}
SuggestSpans == {0, 2}

\* "if line.startswith('1.') or ..." up to 3 for hotels, up to 5 for activities
HotelHeaders == 1..3
ActivityHeaders == 1..5

\* current_option = {'option': n}
NewOption(n) == [option |-> n, named |-> FALSE, has_price |-> FALSE, price |-> 0]

ReplaceLast(options, option) == [options EXCEPT ![Len(options)] = option]

\* get_hotel_suggestions: the price put in place of one that does not parse
hotel_estimate(budget, option) ==
    Pct(budget, IF option = 3 THEN 70 ELSE IF option = 2 THEN 80 ELSE 90)

\* get_activity_suggestions: daily_budget, and the price put in place of one
\* that does not parse
daily_budget(budget, days) == IF days > 0 THEN budget \div days ELSE budget
activity_estimate(budget, days, option) ==
    Pct(daily_budget(budget, days), 10 * option)

\* one pass of the loop over the lines
parse_line(kind, options, line, budget, span) ==
    LET headers == IF kind = "hotel" THEN HotelHeaders ELSE ActivityHeaders
        opened == IF line.header \in headers
                  THEN Append(options, NewOption(line.header)) ELSE options
    IN IF opened = <<>> THEN opened
       ELSE LET current_option == opened[Len(opened)] IN
            IF ~current_option.named /\ line.plain
            THEN ReplaceLast(opened, [current_option EXCEPT !.named = TRUE])
            ELSE IF kind = "hotel" /\ line.early THEN opened
            ELSE IF line.priced
            THEN ReplaceLast(opened,
                   [current_option EXCEPT
                      !.has_price = TRUE,
                      !.price = IF line.parses THEN line.amount
                                ELSE IF kind = "hotel"
                                     THEN hotel_estimate(budget, current_option.option)
                                     ELSE activity_estimate(budget, span,
                                                            current_option.option)])
            ELSE opened

RECURSIVE parse_from(_, _, _, _, _, _)
parse_from(kind, text, i, options, budget, span) ==
    IF i > Len(text) THEN options
    ELSE parse_from(kind, text, i + 1,
                    parse_line(kind, options, text[i], budget, span), budget, span)

get_hotel_suggestions(text, budget, nights) ==
    parse_from("hotel", text, 1, <<>>, budget, nights)

get_activity_suggestions(text, budget, days) ==
    parse_from("activity", text, 1, <<>>, budget, days)

\* the arguments, and the text the language model answers with
SuggestInit ==
    /\ Start
    /\ given \in [text : Generated, budget : SuggestBudgets, span : SuggestSpans]
    /\ returned = None

suggest_hotels ==
    /\ returned = None
    /\ returned' = [by |-> "hotel",
                    options |-> get_hotel_suggestions(given.text, given.budget,
                                                      given.span)]
    /\ UNCHANGED <<planner, service, given, sessions, minted>>

suggest_activities ==
    /\ returned = None
    /\ returned' = [by |-> "activity",
                    options |-> get_activity_suggestions(given.text, given.budget,
                                                         given.span)]
    /\ UNCHANGED <<planner, service, given, sessions, minted>>

SuggestNext ==
    \/ suggest_hotels
    \/ suggest_activities

SuggestSpec == SuggestInit /\ [][SuggestNext]_vars

----------------------------------------------------------------------------
(* TravelPlan.to_dict, from_dict and load_from_file                          *)
(* (src/models/travel_plan.py).  A TravelPlan object and a dictionary are    *)
(* both functions from names to values; the object always has the ten        *)
(* attributes __init__ sets, a dictionary has whatever keys it was given.    *)

Keys == {"total_budget", "remaining_budget", "departure", "destination",
         "departure_date", "return_date", "travelers", "flights", "hotels",
         "activities"}

\* TravelPlan()
NewPlan ==
    [total_budget |-> Unset, remaining_budget |-> Unset, departure |-> None,
     destination |-> None, departure_date |-> Unset, return_date |-> Unset,
     travelers |-> Unset, flights |-> None, hotels |-> None, activities |-> <<>>]

\* plans a session can hold: untouched, with the details entered, with
\* bookings, and with a remaining budget that matches the bookings or not
Plans ==
    {NewPlan} \cup
    {[total_budget |-> 500, remaining_budget |-> r, departure |-> "CDG",
      destination |-> "CMN", departure_date |-> 1, return_date |-> 3,
      travelers |-> 2, flights |-> f, hotels |-> h, activities |-> a] :
        r \in {500, 100},
        f \in {None, [option |-> 1, price |-> 200]},
        h \in {None, [option |-> 2, price |-> 100, nights |-> 2]},
        a \in {<<>>, <<[option |-> 3, price |-> 50]>>,
               <<[option |-> 3, price |-> 50], [option |-> 1, price |-> 50]>>}}

\* calculate_remaining_budget's sum, of a plan held as a value
spent_of(p) ==
    (IF p.flights # None THEN p.flights.price ELSE 0)
    + (IF p.hotels # None THEN p.hotels.price ELSE 0)
    + SumPrices(p.activities)

\* to_dict: the dictionary of the ten attributes
to_dict(p) == [k \in Keys |-> p[k]]

\* from_dict: plan = cls(), then setattr(plan, key, value) for each item
from_dict(data) ==
    [k \in Keys \cup DOMAIN data |-> IF k \in DOMAIN data THEN data[k] ELSE NewPlan[k]]

\* what open() and json.load() find: no file; a file that cannot be parsed,
\* because its text is not JSON or because its bytes are not text; a JSON
\* document that is not an object; or the object save_to_file wrote, of this
\* or another version of the program (keys missing, a key the program does
\* not know)
StoredPlan == [NewPlan EXCEPT !.total_budget = 500, !.remaining_budget = 300,
                              !.flights = [option |-> 1, price |-> 200]]
StoredObject == [k \in Keys \cup {"notes"} |-> IF k = "notes" THEN "x" ELSE StoredPlan[k]]

Files ==
    {[kind |-> k, data |-> <<>>] : k \in {"missing", "not_json", "not_text", "not_object"}}
    \cup {[kind |-> "object", data |-> [k \in S |-> StoredObject[k]]] :
              S \in SUBSET DOMAIN StoredObject}

\* an exception leaves the call
Raised == [raised |-> TRUE]

\* load_from_file: FileNotFoundError and json.JSONDecodeError give None; the
\* UnicodeDecodeError of f.read() and the AttributeError of data.items() on a
\* list, a number, a string or null are not among the exceptions caught
load_from_file(file) ==
    IF file.kind \in {"missing", "not_json"} THEN None
    ELSE IF file.kind \in {"not_text", "not_object"} THEN Raised
    ELSE from_dict(file.data)

PlanInit ==
    /\ Start
    /\ frontend = "services"
    /\ given \in [kind : {"plan"}, plan : Plans] \cup [kind : {"file"}, file : Files]
    /\ returned = None

\* data = p.to_dict()
serialize ==
    /\ given.kind = "plan"
    /\ returned = None
    /\ returned' = [stage |-> "dict", data |-> to_dict(given.plan)]
    /\ UNCHANGED <<planner, service, given, sessions, minted>>

\* TravelPlan.from_dict(data)
deserialize ==
    /\ returned # None
    /\ returned.stage = "dict"
    /\ returned' = [stage |-> "plan", plan |-> from_dict(returned.data)]
    /\ UNCHANGED <<planner, service, given, sessions, minted>>

\* TravelPlan.load_from_file(filename)
load ==
    /\ given.kind = "file"
    /\ returned = None
    /\ returned' = [stage |-> "loaded", plan |-> load_from_file(given.file)]
    /\ UNCHANGED <<planner, service, given, sessions, minted>>

PlanNext ==
    \/ serialize
    \/ deserialize
    \/ load

PlanSpec == PlanInit /\ [][PlanNext]_vars

----------------------------------------------------------------------------
(* The operations that summarize or serialize the plan: what each computes   *)
(* from the plan goes to returned.  The CLI's displays run at the main menu; *)
(* the model-level and service-level summaries take the plan as it is.       *)

\* the session's TravelPlan as a value
current_plan ==
    [total_budget |-> total_budget, remaining_budget |-> remaining_budget,
     departure |-> departure, destination |-> destination,
     departure_date |-> departure_date, return_date |-> return_date,
     travelers |-> travelers, flights |-> flights, hotels |-> hotels,
     activities |-> activities]

\* display_full_itinerary / save_itinerary: flight_cost, hotel_cost,
\* activity_cost and their sum
flight_cost == IF flights # None THEN flights.price ELSE 0
hotel_cost == IF hotels # None THEN hotels.price ELSE 0
activity_cost == SumPrices(activities)
total_spent == flight_cost + hotel_cost + activity_cost

\* an operation that reads the plan and returns or prints
Summarize(op, shown) ==
    /\ total_budget # Unset
    /\ returned' = [op |-> op, shown |-> shown]
    /\ UNCHANGED <<planner, service, given, sessions, minted>>

\* TravelPlan.get_summary
get_summary ==
    Summarize("get_summary",
              <<get_trip_duration_days, total_budget, remaining_budget,
                flight_cost, hotel_cost, Len(activities)>>)

\* TravelPlan.to_dict
plan_to_dict == Summarize("to_dict", to_dict(current_plan))

\* TravelPlannerCLI.display_travel_summary
display_travel_summary ==
    /\ cli /\ pc = "menu"
    /\ Summarize("display_travel_summary",
                 <<total_budget, remaining_budget, flight_cost, hotel_cost,
                   Len(activities), activity_cost>>)

\* TravelPlannerCLI.display_full_itinerary (menu choice 5)
display_full_itinerary ==
    /\ cli /\ pc = "menu"
    /\ Summarize("display_full_itinerary", <<total_spent, remaining_budget>>)

\* TravelPlannerCLI.save_itinerary (menu choice 6): the file written
save_itinerary ==
    /\ cli /\ pc = "menu"
    /\ Summarize("save_itinerary", <<total_spent, remaining_budget>>)

\* FlightService.get_flight_summary
get_flight_summary ==
    Summarize("get_flight_summary", IF flights = None THEN None ELSE flights)

\* HotelService.get_hotel_summary
get_hotel_summary ==
    Summarize("get_hotel_summary", IF hotels = None THEN None ELSE hotels)

\* ActivityService.get_activities_summary
get_activities_summary ==
    Summarize("get_activities_summary",
              IF activities = <<>> THEN None ELSE <<Len(activities), activity_cost>>)

SummaryNext ==
    \/ ScenarioNext
    \/ get_summary
    \/ plan_to_dict
    \/ display_travel_summary
    \/ display_full_itinerary
    \/ save_itinerary
    \/ get_flight_summary
    \/ get_hotel_summary
    \/ get_activities_summary

SummarySpec == ScenarioInit /\ [][SummaryNext]_vars

----------------------------------------------------------------------------
(* The conversational web flow on its own *)

WebInit == Init /\ frontend = "web"

WebNext ==
    \/ process_destination
    \/ process_departure
    \/ process_dates
    \/ process_travelers
    \/ process_budget
    \/ process_flights
    \/ process_hotels
    \/ process_activities
    \/ process_summary

WebSpec == WebInit /\ [][WebNext]_vars

----------------------------------------------------------------------------
(* The conversational flow up to the flights step, with its flight query *)

\* api_wrappers.search_flights hands back the answer's JSON on 200 and None on
\* any other answer, on an exception and when no token was obtained
offers_of(result, data) == IF result = "offers" THEN [data |-> data] ELSE None

\* _book_flight, a digit typed: search_flights is called again (pui.py:203)
book_flight_search ==
    /\ web /\ current_step = "flights" /\ pending_action = "book_flight"
    /\ fs.result = "pending"
    /\ fs_search

\* _book_flight after search_flights returned: flights['data'][option] raises
\* on None and on a short list, and process_input answers with an apology
book_flight ==
    /\ web /\ current_step = "flights" /\ pending_action = "book_flight"
    /\ fs.pc = "idle" /\ fs.result \in {"offers", "empty"}
    /\ \E choice \in 1 .. 3, data \in FlightResults :
         LET found == offers_of(fs.result, data) IN
         IF found # None /\ choice - 1 < Len(found.data)
         THEN LET price == found.data[choice] IN
              IF WebFlightWithinBudget(price, remaining_budget)
              THEN /\ flights' = [option |-> choice, price |-> price]
                   /\ remaining_budget' = remaining_budget - price
                   /\ current_step' = "hotels"
                   /\ pending_action' = "None"
                   /\ last' = Did("book_flight", "booked", choice, price)
                   /\ ops < MaxOps /\ ops' = ops + 1
              ELSE /\ last' = Did("book_flight", "over_budget", choice, price)
                   /\ ops' = ops
                   /\ UNCHANGED <<remaining_budget, flights, current_step,
                                  pending_action>>
         ELSE /\ last' = Did("book_flight", "error", choice, 0)
              /\ ops' = ops
              /\ UNCHANGED <<remaining_budget, flights, current_step, pending_action>>
    /\ rt' = NoRT
    /\ fs' = [fs EXCEPT !.result = "pending"]
    /\ UNCHANGED <<frontend, total_budget, departure, destination, departure_date,
                   return_date, travelers, hotels, activities, pc, flight_options>>
    /\ UNCHANGED <<tm, now, call, calls, location_cache, res>>
    /\ UNCHANGED bench

\* the other answers at the flights step: yes, no, skip, anything else
flights_answer ==
    /\ fs.pc = "idle" /\ fs.result = "pending"
    /\ process_flights
    /\ last'.op = "process_flights" \/ last'.outcome \in {"skip", "invalid"}

QueryNext ==
    \/ process_destination
    \/ process_departure
    \/ process_dates
    \/ process_travelers
    \/ process_budget
    \/ flights_answer
    \/ book_flight_search
    \/ fs_token
    \/ exchange
    \/ fs_request
    \/ book_flight

\* the conversation from its first message to the end of the flights step
QuerySpec == WebInit /\ [][QueryNext]_vars

----------------------------------------------------------------------------
(* get_token called by two sessions at once                                 *)
(*                                                                          *)
(* The manager holds no lock.  Each session runs get_token in its own       *)
(* thread; a thread can be suspended between any two reads or writes of the *)
(* manager's attributes, so each read and each write is a step of its own.  *)

\* get_token calls one session makes
MaxSessionCalls == 2

\* answers of the token endpoint: a token with or without expires_in, and a
\* client error.  The answers that make get_token sleep and try again lengthen
\* a call without touching the manager's attributes.
SessionResponses == { r \in Responses : r.status \in {200, 400} }

\* line 23, left operand: self.token is read
session_call ==
    /\ \E s \in Sessions :
         /\ sessions[s].pc \in {"idle", "done"}
         /\ sessions[s].calls < MaxSessionCalls
         /\ sessions' = [sessions EXCEPT ![s] =
                           [NoSession EXCEPT !.pc = "compare", !.seen = tm.token,
                                             !.calls = sessions[s].calls + 1]]
    /\ UNCHANGED <<tm, now, minted>>
    /\ UNCHANGED <<call, calls, fs, location_cache, res, given, returned>>
    /\ UNCHANGED planner

\* line 23, right operand: time.time() and self.expiry_time are read
session_compare ==
    /\ \E s \in Sessions :
         /\ sessions[s].pc = "compare"
         /\ sessions' = [sessions EXCEPT ![s].pc =
                           IF Fresh(sessions[s].seen, now, tm.expiry_time) THEN "cached"
                           ELSE IF Retrying(0) THEN "post" ELSE "none"]
    /\ UNCHANGED <<tm, now, minted>>
    /\ UNCHANGED <<call, calls, fs, location_cache, res, given, returned>>
    /\ UNCHANGED planner

\* line 24: return self.token, read again
session_cached ==
    /\ \E s \in Sessions :
         /\ sessions[s].pc = "cached"
         /\ sessions' = [sessions EXCEPT ![s].pc = "done", ![s].result = tm.token,
                                         ![s].at = now]
    /\ UNCHANGED <<tm, now, minted>>
    /\ UNCHANGED <<call, calls, fs, location_cache, res, given, returned>>
    /\ UNCHANGED planner

\* lines 36-58: the POST and its answer; on 200 the answer's token and
\* expires_in are in the thread's token_data
session_post ==
    /\ \E s \in Sessions :
         /\ sessions[s].pc = "post"
         /\ \E response \in SessionResponses :
              LET status == response.status
                  ttl == IF response.expires_in = Unset THEN default_expires_in
                         ELSE response.expires_in
                  wait == IF IsServerError(status)
                          THEN retry_delay * 2^(sessions[s].retries) ELSE 0
              IN IF status = 200
                 THEN /\ minted' = Append(minted, now + ttl)
                      /\ sessions' = [sessions EXCEPT ![s].pc = "store_token",
                                                      ![s].token = Len(minted) + 1,
                                                      ![s].ttl = ttl]
                      /\ now' = now
                 ELSE IF ~IsServerError(status)
                 THEN /\ sessions' = [sessions EXCEPT ![s].pc = "none"]
                      /\ UNCHANGED <<now, minted>>
                 ELSE /\ sessions' = [sessions EXCEPT
                                        ![s].retries = @ + 1,
                                        ![s].pc = IF Retrying(sessions[s].retries + 1)
                                                  THEN "post" ELSE "none"]
                      /\ now' = now + wait
                      /\ minted' = minted
    /\ UNCHANGED <<tm, call, calls, fs, location_cache, res, given, returned>>
    /\ UNCHANGED planner

\* line 41: self.token = token_data.get('access_token')
session_store_token ==
    /\ \E s \in Sessions :
         /\ sessions[s].pc = "store_token"
         /\ tm' = [tm EXCEPT !.token = sessions[s].token]
         /\ sessions' = [sessions EXCEPT ![s].pc = "store_expiry"]
    /\ UNCHANGED <<now, minted>>
    /\ UNCHANGED <<call, calls, fs, location_cache, res, given, returned>>
    /\ UNCHANGED planner

\* line 42: self.expiry_time = time.time() + token_data.get('expires_in', 1800)
session_store_expiry ==
    /\ \E s \in Sessions :
         /\ sessions[s].pc = "store_expiry"
         /\ tm' = [tm EXCEPT !.expiry_time = now + sessions[s].ttl]
         /\ sessions' = [sessions EXCEPT ![s].pc = "return"]
    /\ UNCHANGED <<now, minted>>
    /\ UNCHANGED <<call, calls, fs, location_cache, res, given, returned>>
    /\ UNCHANGED planner

\* line 43: return self.token, read again
session_return ==
    /\ \E s \in Sessions :
         /\ sessions[s].pc = "return"
         /\ sessions' = [sessions EXCEPT ![s].pc = "done", ![s].result = tm.token,
                                         ![s].at = now]
    /\ UNCHANGED <<tm, now, minted>>
    /\ UNCHANGED <<call, calls, fs, location_cache, res, given, returned>>
    /\ UNCHANGED planner

\* line 60: return None
session_none ==
    /\ \E s \in Sessions :
         /\ sessions[s].pc = "none"
         /\ sessions' = [sessions EXCEPT ![s].pc = "done", ![s].result = 0,
                                         ![s].at = now]
    /\ UNCHANGED <<tm, now, minted>>
    /\ UNCHANGED <<call, calls, fs, location_cache, res, given, returned>>
    /\ UNCHANGED planner

\* time passes while no session is inside get_token
session_elapse ==
    /\ \A s \in Sessions : sessions[s].pc \in {"idle", "done"}
    /\ now < MaxNow
    /\ \E d \in Elapses : now' = now + d
    /\ UNCHANGED <<tm, minted, sessions>>
    /\ UNCHANGED <<call, calls, fs, location_cache, res, given, returned>>
    /\ UNCHANGED planner

SessionNext ==
    \/ session_call
    \/ session_compare
    \/ session_cached
    \/ session_post
    \/ session_store_token
    \/ session_store_expiry
    \/ session_return
    \/ session_none
    \/ session_elapse

SessionInit == Init /\ frontend = "web"

SessionSpec == SessionInit /\ [][SessionNext]_vars

----------------------------------------------------------------------------
(* The command-line session with the services on its own *)

ServiceInit == Init /\ frontend = "services"

ServiceNext ==
    \/ collect_initial_details
    \/ edit_travel_details
    \/ search_flights
    \/ flight_skip
    \/ flight_select
    \/ flight_budget
    \/ modify_flight_criteria
    \/ handle_no_flights_found
    \/ discuss_hotels
    \/ hotel_skip
    \/ hotel_select
    \/ discuss_activities
    \/ activity_skip
    \/ activity_select
    \/ modify_hotel_booking
    \/ modify_activities
    \/ remove_activity
    \/ modify_activities_add
    \/ modify_activities_back

ServiceSpec == ServiceInit /\ [][ServiceNext]_vars

----------------------------------------------------------------------------
(* _find_best_match applied on its own *)

\* how many locations one answer of the provider lists
MaxCandidates == 3

\* two locations named as the input "Lyon" is, one that contains it, two that
\* share no letter with it
Lyn == [iataCode |-> "LYN", name |-> "Lyon"]
Par == [iataCode |-> "PAR", name |-> "PARIS"]
Cdg == [iataCode |-> "CDG", name |-> "Paris"]
Candidates == {Lys, Lyn, Xyd, Par, Cdg}
CandidateLists == UNION { [1 .. n -> Candidates] : n \in 1 .. MaxCandidates }
MatchInputs == {"Lyon", "Gare de Lyon"}

MatchInit ==
    /\ Start
    /\ frontend = "services"
    /\ given \in [input_name : MatchInputs, locations : CandidateLists]
    /\ returned = None

\* best_match = self._find_best_match(location_name, data['data'])
find_match ==
    /\ returned = None
    /\ returned' = [match |-> find_best_match(given.input_name, given.locations)]
    /\ UNCHANGED <<planner, service, given, sessions, minted>>

MatchNext == find_match

MatchSpec == MatchInit /\ [][MatchNext]_vars

----------------------------------------------------------------------------
(* The flight stage of the three front ends on its own *)

FlightNext ==
    \/ collect_initial_details
    \/ search_flights
    \/ flight_skip
    \/ flight_select
    \/ flight_budget
    \/ handle_no_flights_found
    \/ cli_search_flights
    \/ cli_modify_search
    \/ cli_flight_select
    \/ process_destination
    \/ process_departure
    \/ process_dates
    \/ process_travelers
    \/ process_budget
    \/ process_flights

FlightSpec == Init /\ [][FlightNext]_vars

----------------------------------------------------------------------------
(* get_token with a rate limit whose Retry-After is a date *)

\* the answers of the token endpoint, with the rate-limited answer whose
\* Retry-After header is an HTTP date
DatedResponses ==
    Responses \cup {[status |-> 429, retry_after |-> HttpDate, expires_in |-> Unset]}

exchange_any == Exchange(DatedResponses)

\* the ValueError of get_token leaves search_flights, which calls it outside
\* its try (api_wrappers.py:48)
fs_raised ==
    /\ call.pc = "raised"
    /\ fs.pc = "await_search"
    /\ fs' = [fs EXCEPT !.pc = "raised", !.result = "raised"]
    /\ UNCHANGED <<tm, now, call, calls, location_cache, res>>
    /\ UNCHANGED planner
    /\ UNCHANGED bench

BackoffInit == Init /\ frontend = "fallback"

BackoffNext ==
    \/ fs_search
    \/ exchange_any
    \/ fs_token
    \/ fs_raised
    \/ fs_request
    \/ elapse

BackoffSpec == BackoffInit /\ [][BackoffNext]_vars

---------------------------------------------------------------------------
(* Properties of the ledger and the booking stages *)

ledger == <<total_budget, remaining_budget, flights, hotels, activities>>

FlightConfirms == {"flight_select", "book_flight"}
HotelConfirms == {"hotel_select", "book_hotel"}
ActivityConfirms == {"activity_select"}
Confirms == FlightConfirms \cup HotelConfirms \cup ActivityConfirms

\* the entries a step has appended to the activity list
Added == SubSeq(activities', Len(activities) + 1, Len(activities'))

\* C1: in the command-line front end and the services, once the budget is
\* set, remaining_budget equals total_budget minus the price of the booked
\* flight, of the booked hotel and of every booked activity.
C1_LedgerBalanced ==
    (cli /\ total_budget # Unset) => remaining_budget = total_budget - spent

\* C2: a confirm of a flight, hotel or activity option books exactly when
\* its price is <= remaining_budget (so also when they are equal); a booking
\* debits remaining_budget by exactly the price, leaves total_budget alone
\* and records the option in the stage's field.  In the web flow's multiple
\* selection the same holds of the sum of the offered numbers 1..5 selected.
C2_ConfirmWithinBudget ==
    [][ /\ (last'.op \in Confirms /\ last'.outcome \in {"booked", "over_budget"}) =>
              /\ (last'.outcome = "booked") <=> (last'.price <= remaining_budget)
              /\ (last'.outcome = "booked") =>
                    /\ remaining_budget' = remaining_budget - last'.price
                    /\ total_budget' = total_budget
                    /\ last'.op \in FlightConfirms =>
                          flights' = [option |-> last'.arg, price |-> last'.price]
                    /\ last'.op \in HotelConfirms =>
                          /\ hotels' # None
                          /\ hotels'.option = last'.arg
                          /\ hotels'.price = last'.price
                    /\ last'.op \in ActivityConfirms =>
                          Added = << [option |-> last'.arg, price |-> last'.price] >>
        /\ (/\ last'.op = "add_activities" /\ last'.outcome = "booked"
            /\ \A i \in 1 .. Len(Added) : Added[i].option \in 1 .. 5) =>
              /\ SumPrices(Added) <= remaining_budget
              /\ remaining_budget' = remaining_budget - SumPrices(Added)
              /\ total_budget' = total_budget
      ]_vars

\* a flight whose price is the whole remaining budget has been booked
C2_Witness ==
    /\ last.op \in FlightConfirms /\ last.outcome = "booked"
    /\ last.price > 0 /\ remaining_budget = 0
    /\ flights # None /\ flights.price = last.price

\* C3: a confirm or add whose price exceeds remaining_budget applies nothing:
\* both budgets, the flight, the hotel and the activity list stay as they were.
C3_RejectedChangesNothing ==
    [][ (/\ last'.op \in Confirms \cup {"add_activities"}
         /\ last'.outcome \in {"booked", "over_budget"}
         /\ last'.price > remaining_budget)
        => /\ last'.outcome = "over_budget"
           /\ UNCHANGED ledger ]_vars

\* a hotel price typed at the command line was refused with a hotel-less plan
C3_Witness ==
    /\ frontend = "fallback"
    /\ last.op = "hotel_select" /\ last.outcome = "over_budget"
    /\ last.price > remaining_budget
    /\ hotels = None

\* C4: a flight (a hotel) is booked only while the stage holds no booking.
C4_NoSecondBooking ==
    [][ /\ (last'.op \in FlightConfirms /\ last'.outcome = "booked") => flights = None
        /\ (last'.op \in HotelConfirms /\ last'.outcome = "booked") => hotels = None
      ]_vars

\* C5: once the budget is set, remaining_budget is never negative.
C5_NeverNegative ==
    total_budget # Unset => remaining_budget >= 0

\* a night adjustment the remaining budget could not pay has been refused
C5_Witness ==
    /\ last.op = "modify_hotel_booking" /\ last.outcome = "insufficient"
    /\ hotels # None
    /\ last.price - hotels.price > remaining_budget
    /\ remaining_budget >= 0

\* C6: in the command-line front end and the services a hotel search without
\* a flight booking, and an activity search without a hotel booking, is
\* refused and changes nothing; the hotel prompt is only reached with a flight
\* booked and the activity prompt with a hotel booked, so a hotel is booked
\* after a flight and an activity after a hotel.
C6_StageOrder ==
    [][ cli =>
         /\ (last'.op = "discuss_hotels" /\ flights = None) =>
               /\ last'.outcome = "refused"
               /\ pc' # "hotel_select"
               /\ UNCHANGED plan
         /\ (last'.op = "discuss_activities" /\ hotels = None) =>
               /\ last'.outcome = "refused"
               /\ pc' # "activity_select"
               /\ UNCHANGED plan
         /\ pc = "hotel_select" => flights # None
         /\ pc = "activity_select" => hotels # None
         /\ (hotels' # None /\ hotels' # hotels) => flights # None
         /\ Len(activities') > Len(activities) => hotels # None
      ]_vars

\* a hotel search has been refused for want of a flight booking
C6_Witness ==
    /\ cli
    /\ last.op = "discuss_hotels" /\ last.outcome = "refused"
    /\ flights = None /\ hotels = None
    /\ pc = "menu"

\* C7: a skip creates no booking and changes no budget; the hotel search
\* that follows a skip of the flights, and the activity search that follows
\* a skip of the hotels, is not refused.
C7_SkipAdvances ==
    [][ /\ last'.outcome = "skip" => UNCHANGED ledger
        /\ (/\ last.op \in FlightConfirms /\ last.outcome = "skip"
            /\ last'.op \in {"discuss_hotels", "process_hotels"})
           => last'.outcome # "refused"
        /\ (/\ last.op \in HotelConfirms /\ last.outcome = "skip"
            /\ last'.op \in {"discuss_activities", "process_activities"})
           => last'.outcome # "refused"
      ]_vars

\* C8: cancelling a hotel needs a booking (without one nothing changes); it
\* credits remaining_budget by the booked price, clears the hotel and leaves
\* total_budget, the flight and the activities as they were.
C8_HotelCancel ==
    [][ last'.op = "modify_hotel_booking" =>
         /\ hotels = None => (last'.outcome = "no_booking" /\ UNCHANGED plan)
         /\ last'.outcome = "cancelled" =>
               /\ hotels # None
               /\ remaining_budget' = remaining_budget + hotels.price
               /\ hotels' = None
               /\ UNCHANGED <<total_budget, flights, activities>>
      ]_vars

\* a hotel with a price has been cancelled while activities were booked
C8_Witness ==
    /\ last.op = "modify_hotel_booking" /\ last.outcome = "cancelled"
    /\ last.price > 0
    /\ hotels = None /\ flights # None /\ activities # <<>>

\* C9: booking the same option right after its cancellation (hotel) or
\* removal (activity) gives back the remaining_budget, and for the hotel the
\* booking, that held before the cancellation.
C9_CancelRebookRoundTrip ==
    [][ /\ (/\ rt.kind = "hotel"
            /\ last'.op = "hotel_select" /\ last'.outcome = "booked"
            /\ last'.arg = rt.option)
           => (remaining_budget' = rt.remaining /\ hotels' = rt.booking)
        /\ (/\ rt.kind = "activity"
            /\ last'.op = "activity_select" /\ last'.outcome = "booked"
            /\ last'.arg = rt.option)
           => remaining_budget' = rt.remaining
      ]_vars

C11_BudgetChangeResets ==
    [][ /\ (/\ last'.outcome \in {"budget_reset", "budget_set", "budget", "increased"}
            /\ total_budget # Unset) =>
              /\ total_budget' = last'.price
              /\ remaining_budget' = total_budget'
              /\ IF any_booking
                 THEN flights' = None /\ hotels' = None /\ activities' = <<>>
                 ELSE UNCHANGED <<flights, hotels, activities>>
        /\ last'.outcome = "budget_declined" => UNCHANGED plan
      ]_vars

\* C12: with a budget of 2000, booking a flight of 500 leaves 1500, then a
\* hotel of 900 leaves 600, then an activity of 200 leaves 400, and a further
\* activity of 500 is turned down with 400 remaining and the list unchanged.
C12_ScenarioTrace ==
    [][ total_budget = 2000 =>
         /\ (/\ remaining_budget = 2000
             /\ last'.op = "flight_select" /\ last'.outcome \in {"booked", "over_budget"}
             /\ last'.price = 500)
            => (last'.outcome = "booked" /\ remaining_budget' = 1500)
         /\ (/\ remaining_budget = 1500
             /\ last'.op = "hotel_select" /\ last'.outcome \in {"booked", "over_budget"}
             /\ last'.price = 900)
            => (last'.outcome = "booked" /\ remaining_budget' = 600)
         /\ (/\ remaining_budget = 600
             /\ last'.op = "activity_select" /\ last'.outcome \in {"booked", "over_budget"}
             /\ last'.price = 200)
            => (last'.outcome = "booked" /\ remaining_budget' = 400)
         /\ (/\ remaining_budget = 400
             /\ last'.op = "activity_select" /\ last'.outcome \in {"booked", "over_budget"}
             /\ last'.price = 500)
            => (/\ last'.outcome = "over_budget"
                /\ remaining_budget' = 400
                /\ UNCHANGED <<total_budget, flights, hotels, activities>>)
      ]_vars

\* the end of the example: flight 500, hotel 900, one activity of 200 booked,
\* the activity of 500 just turned down, 400 remaining
C12_Witness ==
    /\ total_budget = 2000 /\ remaining_budget = 400
    /\ flights # None /\ flights.price = 500
    /\ hotels # None /\ hotels.price = 900
    /\ Len(activities) = 1 /\ activities[1].price = 200
    /\ last.op = "activity_select" /\ last.outcome = "over_budget" /\ last.price = 500

----------------------------------------------------------------------------
(* Properties of the token manager and of the flight query *)

\* a step that enters get_token
Enters == calls' = calls + 1

\* a step that is one credential exchange of the call in progress
Exchanges == call.pc = "loop" /\ call'.exchanges = call.exchanges + 1

C14_CachedWhileFresh ==
    [][ /\ Enters =>
             /\ call'.cached <=> (tm.token # 0 /\ now < tm.expiry_time - 300)
             /\ call'.cached =>
                  /\ call'.pc = "done"
                  /\ call'.result = tm.token
                  /\ call'.exchanges = 0
                  /\ tm' = tm
             /\ ~call'.cached => call'.pc = "loop"
        /\ Exchanges /\ call'.status = 200 =>
             /\ call'.pc = "done"
             /\ call'.result # 0
             /\ tm'.token = call'.result
             /\ \E response \in Responses :
                  /\ response.status = 200
                  /\ tm'.expiry_time =
                       now + (IF response.expires_in = Unset THEN 1800
                              ELSE response.expires_in)
        /\ Exchanges /\ call'.status # 200 => tm' = tm
        /\ ~Exchanges => tm' = tm
      ]_vars

\* a second call, made after time has passed, is answered with the token the
\* first one obtained
C14_Witness ==
    /\ calls = 2
    /\ call.pc = "done"
    /\ call.cached
    /\ call.result = 1
    /\ now > 0

\* the statuses of a client error that is not the rate limit
ClientErrors == (400..499) \ {429}

\* C15: a client error other than 429 in answer to the credential exchange
\* ends get_token at once with None: no sleep follows it, the retry counter is
\* not advanced and no further exchange is made by that call.
C15_ClientErrorFailsFast ==
    [][ /\ Exchanges /\ call'.status \in ClientErrors =>
             /\ call'.pc = "done"
             /\ call'.result = 0
             /\ call'.waited = 0
             /\ call'.retries = call.retries
             /\ now' = now
        /\ call.status \in ClientErrors /\ call.exchanges > 0 => ~Exchanges
      ]_vars

\* a client error on the second exchange, with retries left
C15_Witness ==
    /\ call.pc = "done"
    /\ call.status = 400
    /\ call.exchanges = 2
    /\ call.retries = 1
    /\ call.result = 0

\* C16: a flight search whose get_token returned None sends no request and
\* ends with no results, the plan untouched; no flight request is ever sent
\* by a client that holds no token.
C16_NoTokenNoQuery ==
    [][ /\ fs.pc = "await_search" /\ call.pc = "done" /\ call.result = 0
           /\ fs' # fs =>
             /\ fs'.pc = "idle"
             /\ fs'.result = "empty"
             /\ fs'.requests = 0
             /\ plan' = plan
        /\ fs'.requests > fs.requests => fs.access_token # 0 /\ plan' = plan
        /\ fs'.pc \in {"send", "resend"} => fs'.access_token # 0
      ]_vars

\* a search given up for want of a token
C16_Witness ==
    /\ fs.pc = "idle"
    /\ fs.result = "empty"
    /\ fs.requests = 0
    /\ fs.access_token = 0
    /\ call.by = "search"
    /\ call.pc = "done"
    /\ call.exchanges > 0

----------------------------------------------------------------------------
(* Properties of the location resolver *)

\* a step that calls find_iata_code from outside, one that enters it from
\* outside or from the geocoding fallback, and one that returns from it
Begins == res'.n = res.n + 1
Entered == Begins \/ res'.depth = res.depth + 1
Completes == res'.pc = "done" /\ (res.pc # "done" \/ Begins)

Cmn == [iata |-> "CMN", name |-> "Casablanca"]

\* C18: resolving "Casablanca" returns {CMN, Casablanca} at once, without a
\* get_token call, a provider lookup or a geocoding call; the first resolve
\* takes it from the special cases and stores it under "casablanca", where
\* it stays, and a later resolve is answered from the cache.
C18_CuratedThenCached ==
    [][ /\ Begins /\ res'.origin = "Casablanca" =>
             /\ res'.pc = "done"
             /\ res'.result = Cmn
             /\ res'.tokens = 0 /\ res'.lookups = 0 /\ res'.geocodes = 0
             /\ calls' = calls /\ call' = call
             /\ res'.hit = IF "casablanca" \in DOMAIN location_cache
                           THEN "cache" ELSE "special"
             /\ "casablanca" \in DOMAIN location_cache =>
                    location_cache' = location_cache
        /\ "casablanca" \in DOMAIN location_cache' =>
               location_cache'["casablanca"] = Cmn
        /\ "casablanca" \in DOMAIN location_cache =>
               "casablanca" \in DOMAIN location_cache'
      ]_vars

\* "Casablanca" resolved twice, the second time from the cache, get_token
\* called by nothing but the construction of FlightService
C18_Witness ==
    /\ res.n = 2
    /\ res.pc = "done"
    /\ res.origin = "Casablanca"
    /\ res.hit = "cache"
    /\ res.result = Cmn
    /\ DOMAIN location_cache = {"casablanca"}
    /\ calls = 1

\* C19: a resolve that returns a result leaves that result in the cache
\* under the lower-cased text it was called with, and a resolve that returns
\* None leaves the cache as it was.
C19_SuccessCachedUnderInput ==
    [][ /\ Completes /\ res'.result # None =>
             /\ lower(res'.origin) \in DOMAIN location_cache'
             /\ location_cache'[lower(res'.origin)] = res'.result
        /\ Completes /\ res'.result = None => location_cache' = location_cache
        /\ ~Completes => location_cache' = location_cache
      ]_vars

\* C20: find_iata_code looks in the cache, then in the special cases, then
\* asks the provider (after get_token), then the geocoder, and returns at the
\* first that has a result: get_token is called only on a cache and special
\* case miss, the provider is asked only with a token, the geocoder only when
\* the provider was not asked or had no data, and None is returned only by
\* the geocoding step.
C20_StrategyOrder ==
    [][ /\ Entered =>
             LET key == lower(res'.text) IN
             /\ key \in DOMAIN location_cache =>
                  /\ res'.pc = "done" /\ res'.hit = "cache"
                  /\ res'.result = location_cache[key]
                  /\ calls' = calls
                  /\ location_cache' = location_cache
             /\ key \notin DOMAIN location_cache /\ key \in special_keys =>
                  /\ res'.pc = "done" /\ res'.hit = "special"
                  /\ res'.result = special_cases[key]
                  /\ calls' = calls
             /\ key \notin DOMAIN location_cache /\ key \notin special_keys =>
                  /\ res'.pc = "await_token"
                  /\ calls' = calls + 1
        /\ ~Entered => res'.tokens = res.tokens
        /\ res'.lookups # res.lookups /\ ~Begins =>
             /\ res.pc = "lookup"
             /\ res'.lookups = res.lookups + 1
             /\ call.result # 0
             /\ lower(res.text) \notin DOMAIN location_cache
             /\ lower(res.text) \notin special_keys
             /\ IF res'.lookup.status = 200 /\ res'.lookup.data # <<>>
                THEN /\ res'.pc = "done" /\ res'.hit = "provider"
                     /\ res'.geocodes = res.geocodes
                ELSE res'.pc = "geocode"
        /\ res'.geocodes # res.geocodes /\ ~Begins =>
             /\ res.pc = "geocode"
             /\ res'.geocodes = res.geocodes + 1
             /\ IF call.result = 0 THEN res.lookup.status = Unset
                ELSE /\ res.lookup.status # Unset
                     /\ ~(res.lookup.status = 200 /\ res.lookup.data # <<>>)
        /\ Completes /\ res'.result = None =>
             /\ res.pc = "geocode"
             /\ res'.geocodes = res.geocodes + 1
      ]_vars

\* a text the provider does not know, resolved through the geocoder's
\* locality, which the provider knows
C20_Witness ==
    /\ res.pc = "done"
    /\ res.origin = "Gare de Lyon"
    /\ res.text = "Lyon"
    /\ res.hit = "provider"
    /\ res.tokens = 2 /\ res.lookups = 2 /\ res.geocodes = 1

\* C21: within one find_iata_code call made from outside, the geocoder is
\* asked at most once: the call re-entered with the geocoder's locality does
\* not ask the geocoder again.
C21_GeocodeOnce == res.geocodes <= 1

----------------------------------------------------------------------------
(* Properties of the suggestion parsers *)

\* C22: for every generated text, the parsers return between 1 and 5
\* options, each of them with a price, and that price not negative.
C22_OneToFiveOptions ==
    returned # None =>
        /\ Len(returned.options) \in 1..5
        /\ \A i \in 1..Len(returned.options) :
               /\ returned.options[i].has_price
               /\ returned.options[i].price >= 0

----------------------------------------------------------------------------
(* Properties of serialization and loading *)

\* the ledger invariant of a plan held as a value
Balanced(p) ==
    p.total_budget # Unset => p.remaining_budget = p.total_budget - spent_of(p)

\* C23: from_dict(to_dict(p)) has exactly the attributes of p with the
\* values of p (the activities in their order), and is balanced if p is.
C23_RoundTrip ==
    (returned # None /\ returned.stage = "plan") =>
        /\ DOMAIN returned.plan = Keys
        /\ \A k \in Keys : returned.plan[k] = given.plan[k]
        /\ returned.plan = given.plan
        /\ Balanced(given.plan) => Balanced(returned.plan)

\* a balanced plan with a flight, a hotel and two activities, reloaded
C23_Witness ==
    /\ returned # None
    /\ returned.stage = "plan"
    /\ returned.plan.flights # None
    /\ returned.plan.hotels # None
    /\ Len(returned.plan.activities) = 2
    /\ returned.plan.remaining_budget = 100
    /\ Balanced(returned.plan)

\* C28: load_from_file never raises: it returns None for a missing file and
\* for a file that cannot be parsed; for a stored object it returns a plan
\* that has all ten attributes, each with the stored value if the object has
\* the key and with the value TravelPlan() gives it (None, or the empty
\* activity list) if not.
C28_LoadNeverFails ==
    (returned # None /\ returned.stage = "loaded") =>
        /\ returned.plan # Raised
        /\ given.file.kind \in {"missing", "not_json", "not_text"} =>
               returned.plan = None
        /\ given.file.kind = "object" =>
             /\ returned.plan # None
             /\ Keys \subseteq DOMAIN returned.plan
             /\ \A k \in Keys :
                    returned.plan[k] =
                        IF k \in DOMAIN given.file.data THEN given.file.data[k]
                        ELSE IF k = "activities" THEN <<>>
                        ELSE IF k \in {"departure", "destination", "flights", "hotels"}
                             THEN None
                        ELSE Unset

----------------------------------------------------------------------------
(* Properties of the summaries *)

\* C24: get_summary, to_dict, display_travel_summary, display_full_itinerary,
\* save_itinerary and the three services' booking summaries leave every field
\* of the plan as it was.
C24_SummariesReadOnly ==
    [][returned' # returned => plan' = plan]_vars

\* the itinerary of a plan with a flight, a hotel and an activity, saved
C24_Witness ==
    /\ returned # None
    /\ returned.op = "save_itinerary"
    /\ flights # None /\ hotels # None /\ activities # <<>>
    /\ returned.shown = <<total_spent, remaining_budget>>

----------------------------------------------------------------------------
(* Properties of the conversational flow *)

\* the place of a step in the order of the conversation
StepRank(step) ==
    CASE step = "destination" -> 1
      [] step = "departure" -> 2
      [] step = "dates" -> 3
      [] step = "travelers" -> 4
      [] step = "budget" -> 5
      [] step = "flights" -> 6
      [] step = "hotels" -> 7
      [] step = "activities" -> 8
      [] step = "summary" -> 9
      [] OTHER -> 0

\* C25: current_step stays or moves to the next step of destination,
\* departure, dates, travelers, budget, flights, hotels, activities, summary:
\* never back, never over a step.  A detail step is left by a valid answer;
\* flights and hotels are left by a booking, a 'skip' or a 'no'; activities by
\* 'done' or 'no'; summary is not left.
C25_StepsForward ==
    [][ /\ StepRank(current_step) >= 1
        /\ StepRank(current_step') \in {StepRank(current_step), StepRank(current_step) + 1}
        /\ current_step' # current_step =>
             CASE current_step \in {"destination", "departure", "dates", "travelers",
                                    "budget"} -> last'.outcome = "ok"
               [] current_step = "flights" ->
                    /\ last'.outcome \in {"booked", "skip", "no"}
                    /\ last'.outcome = "booked" => flights' # None
               [] current_step = "hotels" ->
                    /\ last'.outcome \in {"booked", "skip", "no"}
                    /\ last'.outcome = "booked" => hotels' # None
               [] current_step = "activities" -> last'.outcome \in {"done", "no"}
               [] OTHER -> FALSE
      ]_vars

\* the summary reached with the flights declined, a hotel booked and the
\* activities closed with 'done'
C25_Witness ==
    /\ current_step = "summary"
    /\ flights = None
    /\ hotels # None
    /\ last.op = "add_activities" /\ last.outcome = "done"

----------------------------------------------------------------------------
(* Properties of the travel dates *)

\* C26: once both dates are set, return_date is strictly later than
\* departure_date, whichever entry or edit set them.
C26_ReturnAfterDeparture ==
    (departure_date # Unset /\ return_date # Unset) => return_date > departure_date

----------------------------------------------------------------------------
(* Properties of a failed flight search *)

----------------------------------------------------------------------------
(* Properties of the token a flight query carries *)

\* C29: a flight query sent with a token the client already held, without
\* asking the token manager, carries a token the manager still regards as
\* valid at that moment: now < expiry_time - expiry_buffer.
C29_QueryTokenValid ==
    [][ (fs.pc = "idle" /\ fs'.pc = "send")
          => /\ fs.access_token = tm.token
             /\ Fresh(fs.access_token, now, tm.expiry_time)
      ]_vars

----------------------------------------------------------------------------
(* Properties of get_token under concurrent callers *)

\* C30: whatever the interleaving of two sessions inside get_token, a call
\* returns None or a token whose own lifetime, counted from the exchange that
\* issued it, has not ended when it is returned.
C30_ReturnsLiveToken ==
    \A s \in Sessions :
        (sessions[s].pc = "done" /\ sessions[s].result # 0)
            => sessions[s].at < minted[sessions[s].result]

----------------------------------------------------------------------------
(* Properties of the order of the bookings *)

\* C31: in the command-line session a hotel booking is held only together
\* with a flight booking, and activities only together with a hotel booking.
C31_BookingsNested ==
    cli => /\ hotels # None => flights # None
           /\ activities # <<>> => hotels # None

----------------------------------------------------------------------------
(* Properties of the hotel adjustment *)

\* C32: adjusting a booked hotel to n > 0 nights sets its price to the old
\* price per night times n and its nights to n, and lowers remaining_budget by
\* the price difference; with n <= 0, or an extra cost above remaining_budget,
\* the booking and remaining_budget stay as they were.
C32_NightsAdjusted ==
    [][ (last'.op = "modify_hotel_booking"
           /\ last'.outcome \in {"adjusted", "insufficient", "invalid_nights"})
        => LET n == last'.arg
               asked == IF hotels.nights > 0 THEN (hotels.price * n) \div hotels.nights
                        ELSE 0
           IN /\ hotels # None
              /\ IF n > 0 /\ asked - hotels.price <= remaining_budget
                 THEN /\ last'.outcome = "adjusted"
                      /\ hotels'.nights = n
                      /\ hotels'.price = asked
                      /\ hotels'.option = hotels.option
                      /\ remaining_budget' = remaining_budget - (asked - hotels.price)
                 ELSE /\ last'.outcome # "adjusted"
                      /\ hotels' = hotels
                      /\ remaining_budget' = remaining_budget
              /\ UNCHANGED <<total_budget, flights, activities>>
      ]_vars

\* a one-night stay with a price has been lengthened to three nights
C32_Witness ==
    /\ last.op = "modify_hotel_booking" /\ last.outcome = "adjusted"
    /\ last.arg = 3
    /\ hotels # None /\ hotels.nights = 3 /\ hotels.price > 0

----------------------------------------------------------------------------
(* Properties of the activity selection of the conversational flow *)

\* C33: an answer to the activity selection either appends every selected
\* number and lowers remaining_budget by the sum of the prices of the entries
\* it appended, or appends nothing and leaves remaining_budget as it was.
C33_SelectionAllOrNothing ==
    [][ last'.op = "add_activities" =>
          \/ /\ activities' = activities
             /\ remaining_budget' = remaining_budget
          \/ /\ last'.outcome = "booked"
             /\ Len(activities') = Len(activities) + last'.arg
             /\ SubSeq(activities', 1, Len(activities)) = activities
             /\ remaining_budget - remaining_budget' =
                  SumPrices(SubSeq(activities', Len(activities) + 1, Len(activities')))
      ]_vars

----------------------------------------------------------------------------
(* Properties of the budget increase at the flight selection *)

----------------------------------------------------------------------------
(* Properties of the prices the services offer *)

\* C35: with remaining_budget >= 0 and a stay of 0 nights or more, no hotel
\* option and no activity option of the services is priced above
\* remaining_budget, and a selection made at these prices is never refused as
\* exceeding the budget.
C35_OffersWithinBudget ==
    [][ (remaining_budget >= 0 /\ get_trip_duration_days >= 0) =>
          /\ \A option_num \in 1 .. 3 :
                estimated_prices(option_num, remaining_budget, get_trip_duration_days)
                    <= remaining_budget
          /\ \A option_num \in 1 .. 5 :
                activity_price(option_num, remaining_budget) <= remaining_budget
          /\ last'.op \in {"hotel_select", "activity_select"} =>
                /\ last'.price <= remaining_budget
                /\ last'.outcome # "over_budget"
      ]_vars

\* a hotel and then an activity were booked at the offered prices
C35_Witness ==
    /\ last.op = "activity_select" /\ last.outcome = "booked" /\ last.price > 0
    /\ hotels # None /\ hotels.price > 0 /\ hotels.nights > 0
    /\ remaining_budget >= 0

----------------------------------------------------------------------------
(* Properties of the token cache across a failed call *)

\* C36: the cached token and its expiry change only in the step that ends a
\* get_token call with a new token, so a call that ends with None leaves both
\* as they were when it began; and a token returned from the cache is inside
\* its validity window, now < expiry_time - 300, when it is returned.
C36_FailedCallKeepsCache ==
    [][ /\ tm' # tm =>
             /\ call.pc = "loop" /\ call'.pc = "done"
             /\ call'.status = 200
             /\ call'.result # 0 /\ call'.result = tm'.token
        /\ (call.pc = "loop" /\ call'.pc = "done" /\ call'.result = 0) =>
             /\ tm' = tm
             /\ call'.status # 200
        /\ (Enters /\ call'.pc = "done") =>
             /\ call'.result = tm.token
             /\ tm.token # 0
             /\ now < tm.expiry_time - expiry_buffer
      ]_vars

\* a second call has failed while the manager held an expired token, which it
\* still holds
C36_Witness ==
    /\ calls = 2
    /\ call.pc = "done" /\ call.result = 0 /\ call.exchanges > 0
    /\ tm.token = 1
    /\ now >= tm.expiry_time - expiry_buffer

----------------------------------------------------------------------------
(* Properties of the choice among the provider's locations *)

\* the similarity of a location's name to the input, in thousandths, with the
\* flat bonus of an exact match whatever the case
Scored(input_name, loc) ==
    ratio(lower(input_name), lower(loc.name))
        + (IF lower(input_name) = lower(loc.name) THEN 500 ELSE 0)

\* C37: the location chosen is the first listed one that has the highest
\* score; with every score at 0 that is the first location of the list.
C37_FirstOfHighestScore ==
    returned # None =>
        LET locations == given.locations
            at(i) == Scored(given.input_name, locations[i])
            firsts == { i \in 1 .. Len(locations) :
                          /\ \A j \in 1 .. Len(locations) : at(j) <= at(i)
                          /\ \A j \in 1 .. (i - 1) : at(j) < at(i) }
        IN /\ Cardinality(firsts) = 1
           /\ \A i \in firsts : returned.match = locations[i]
           /\ (\A j \in 1 .. Len(locations) : at(j) = 0) => returned.match = locations[1]

\* the exact match listed second of two was chosen over a partial match listed
\* first, and before an equal one listed third
C37_Witness ==
    /\ returned # None
    /\ given.input_name = "Lyon"
    /\ given.locations = <<Xyd, Lyn, Lys>>
    /\ returned.match = Lyn

----------------------------------------------------------------------------
(* Properties of the flight selection *)

\* C38: a flight is booked only for an option number in 1..3 that is no
\* greater than the number of options returned, at that option's price; an
\* answer to the flight selection that books nothing leaves the flight booking
\* and remaining_budget as they were.
C38_BookedOptionListed ==
    [][ /\ (flights' # flights /\ flights' # None) =>
             /\ last'.op \in {"flight_select", "book_flight"}
             /\ last'.outcome = "booked"
        /\ last'.op \in {"flight_select", "book_flight"} =>
             IF last'.outcome = "booked"
             THEN /\ last'.arg \in 1 .. 3
                  /\ flights' = [option |-> last'.arg, price |-> last'.price]
                  /\ IF web
                     THEN \E data \in FlightResults :
                             /\ last'.arg <= Len(data)
                             /\ data[last'.arg] = last'.price
                     ELSE /\ last'.arg <= Len(flight_options)
                          /\ flight_options[last'.arg] = last'.price
             ELSE /\ flights' = flights
                  /\ remaining_budget' = remaining_budget
      ]_vars

\* the second of two options has been booked in the conversational flow
C38_Witness ==
    /\ web
    /\ last.op = "book_flight" /\ last.outcome = "booked" /\ last.arg = 2
    /\ flights # None /\ flights.option = 2

----------------------------------------------------------------------------
(* Properties of the waits between exchange attempts *)

\* C39: after failed attempt k (k = 0, 1, 2) get_token waits 2 * 2^k seconds
\* when the failure is a server error or a network failure; after a rate
\* limit it waits the Retry-After seconds when the answer has them and
\* 2 * 2^k otherwise, and goes on to the next attempt; after a success or a
\* client error it does not wait.
C39_WaitAfterAttempt ==
    [][ Exchanges =>
          LET k == call.retries
              status == call'.status
              waits == { 2 * 2^k } \cup
                       { response.retry_after :
                           response \in { r \in DatedResponses :
                                            r.status = 429 /\ r.retry_after > 0 } }
          IN /\ k \in 0 .. 2
             /\ now' = now + call'.waited
             /\ (status = 200 \/ status \in ((400 .. 499) \ {429})) =>
                   /\ call'.waited = 0
                   /\ call'.pc = "done"
             /\ (status >= 500 \/ status = NetworkError) =>
                   /\ call'.waited = 2 * 2^k
                   /\ call'.retries = k + 1
             /\ status = 429 =>
                   /\ call'.waited \in waits
                   /\ call'.retries = k + 1
                   /\ call'.pc \in {"loop", "done"}
      ]_vars

====
